---- MODULE Spec2Model ----
(***************************************************************************)
(* nobility: the NBT encoder (bin_encode: NbtWriter and its three scoped   *)
(* builders) and the NBT decoder (bin_decode: Reader, read_type, Tag,      *)
(* List, Compound, NbtArray, NbtString, Document).                         *)
(*                                                                         *)
(* Representation of Rust values:                                          *)
(*   u8 / Vec<u8> / &[u8]  a number 0..255 / a sequence of them            *)
(*   i8, i16, i32          an integer                                      *)
(*   i64                   <<hi, lo>>, the two big-endian 32-bit halves of *)
(*                         the two's complement word, each as an i32       *)
(*                         (TLC integers are 32 bits wide)                 *)
(*   f32 / f64             the IEEE-754 bit pattern, as an i32 / as an i64 *)
(*   &str                  the sequence of its Unicode scalar values       *)
(*   u32 read from a file  the number, saturated at Huge (see read_u32)    *)
(***************************************************************************)
EXTENDS Integers, Sequences, FiniteSets, TLC

(***************************************************************************)
(* Bounds of the model.                                                    *)
(***************************************************************************)
\* NbtWriter.root calls per writer
MaxRoots == 2
\* CompoundWriter.field calls per writer
MaxFields == 2
\* nested builders opened per writer (compound_field, compound_list_field,
\* TagWriter.compound, TagWriter.compound_list)
MaxNested == 1
\* CompoundListWriter.element calls per writer
MaxElems == 2
\* mutations applied to a seed buffer of the decoder
MaxMut == 1

(***************************************************************************)
(* Tag kinds (the discriminants TagType casts to with `as u8`, and the     *)
(* bytes read_type maps back).                                             *)
(***************************************************************************)
T_End == 0
T_Byte == 1
T_Short == 2
T_Int == 3
T_Long == 4
T_Float == 5
T_Double == 6
T_ByteArray == 7
T_String == 8
T_List == 9
T_Compound == 10
T_IntArray == 11
T_LongArray == 12

\* a u32 that does not fit a TLC integer is represented by Huge; every
\* buffer of the model is far shorter, so advance() decides the same way
Huge == 64 * 16777216

(***************************************************************************)
(* byteorder::BigEndian                                                    *)
(***************************************************************************)
RECURSIVE ToBE(_, _)
\* the n low-order bytes of the two's complement of v, most significant first
ToBE(v, n) == IF n = 0 THEN <<>> ELSE Append(ToBE(v \div 256, n - 1), v % 256)

RECURSIVE FromBE(_)
\* unsigned value of a big-endian byte string (at most 3 bytes, or 4 with
\* the top bit clear)
FromBE(bs) ==
    IF bs = <<>> THEN 0
    ELSE FromBE(SubSeq(bs, 1, Len(bs) - 1)) * 256 + bs[Len(bs)]

read_u16(bs) == FromBE(bs)

read_u32(bs) == IF bs[1] >= 64 THEN Huge ELSE FromBE(bs)

read_i16(bs) == IF bs[1] >= 128 THEN FromBE(bs) - 65536 ELSE FromBE(bs)

read_i32(bs) ==
    IF bs[1] >= 128
    THEN (FromBE(<<bs[1] - 128, bs[2], bs[3], bs[4]>>) - 2147483647) - 1
    ELSE FromBE(bs)

read_i64(bs) == <<read_i32(SubSeq(bs, 1, 4)), read_i32(SubSeq(bs, 5, 8))>>

\* a cast that leaves the byte unsigned
as_i8_unsigned(b) == b

\* the byte of `v as i8`
as_i8(b) == IF b >= 128 THEN b - 256 ELSE b

(***************************************************************************)
(* cesu8 (Java's "modified UTF-8"), as NbtWriter::write_string and         *)
(* NbtString::decode use it.                                               *)
(***************************************************************************)
\* one UTF-8 sequence of 1 to 3 bytes for the 16-bit unit c
utf8_unit(c) ==
    IF c < 128 THEN <<c>>
    ELSE IF c < 2048 THEN <<192 + (c \div 64), 128 + (c % 64)>>
    ELSE <<224 + (c \div 4096), 128 + ((c \div 64) % 64), 128 + (c % 64)>>

\* the bytes of one scalar value: NUL is C0 80, a supplementary character is
\* a surrogate pair of two 3-byte sequences
cesu8_char(c) ==
    IF c = 0 THEN <<192, 128>>
    ELSE IF c < 65536 THEN utf8_unit(c)
    ELSE utf8_unit(55296 + ((c - 65536) \div 1024))
         \o utf8_unit(56320 + ((c - 65536) % 1024))

RECURSIVE to_java_cesu8(_)
\* the encodings of the chars of text one after the other; the text is
\* halved rather than walked so that long texts stay cheap to evaluate
to_java_cesu8(text) ==
    IF text = <<>> THEN <<>>
    ELSE IF Len(text) = 1 THEN cesu8_char(text[1])
    ELSE LET h == Len(text) \div 2
         IN  to_java_cesu8(SubSeq(text, 1, h))
             \o to_java_cesu8(SubSeq(text, h + 1, Len(text)))

IsCont(b) == b >= 128 /\ b < 192

RECURSIVE cesu8_units(_)
\* the 16-bit units of a byte string, or <<-1>> at the first malformed place
cesu8_units(bs) ==
    IF bs = <<>> THEN <<>>
    ELSE IF bs[1] < 128 THEN <<bs[1]>> \o cesu8_units(Tail(bs))
    ELSE IF bs[1] >= 192 /\ bs[1] < 224 /\ Len(bs) >= 2 /\ IsCont(bs[2])
            /\ (bs[1] >= 194 \/ (bs[1] = 192 /\ bs[2] = 128))
         THEN <<(bs[1] - 192) * 64 + (bs[2] - 128)>>
              \o cesu8_units(SubSeq(bs, 3, Len(bs)))
    ELSE IF bs[1] >= 224 /\ bs[1] < 240 /\ Len(bs) >= 3 /\ IsCont(bs[2])
            /\ IsCont(bs[3]) /\ (bs[1] > 224 \/ bs[2] >= 160)
         THEN <<(bs[1] - 224) * 4096 + (bs[2] - 128) * 64 + (bs[3] - 128)>>
              \o cesu8_units(SubSeq(bs, 4, Len(bs)))
    ELSE <<-1>>

RECURSIVE pair_units(_)
\* surrogate pairs joined; <<-1>> for an unpaired surrogate
pair_units(us) ==
    IF us = <<>> THEN <<>>
    ELSE IF us[1] >= 55296 /\ us[1] < 56320
         THEN IF Len(us) >= 2 /\ us[2] >= 56320 /\ us[2] < 57344
              THEN <<65536 + (us[1] - 55296) * 1024 + (us[2] - 56320)>>
                   \o pair_units(SubSeq(us, 3, Len(us)))
              ELSE <<-1>>
    ELSE IF us[1] >= 56320 /\ us[1] < 57344 THEN <<-1>>
    ELSE <<us[1]>> \o pair_units(Tail(us))

\* Result<Cow<str>, Cesu8DecodingError>
from_java_cesu8(bs) ==
    LET us == cesu8_units(bs)
        cs == IF -1 \in {us[i] : i \in DOMAIN us} THEN <<-1>> ELSE pair_units(us)
    IN  IF -1 \in {cs[i] : i \in DOMAIN cs}
        THEN [ok |-> FALSE, text |-> <<>>]
        ELSE [ok |-> TRUE, text |-> cs]

(***************************************************************************)
(* bin_encode::NbtWriter: the low-level writers, as functions of the       *)
(* output vector.                                                          *)
(***************************************************************************)
write_i8(out, value) == Append(out, value % 256)

write_i16(out, value) == out \o ToBE(value, 2)

write_i32(out, value) == out \o ToBE(value, 4)

write_i64(out, value) == out \o ToBE(value[1], 4) \o ToBE(value[2], 4)

\* a u16 written low byte first
write_u16_le(out, value) == out \o <<value % 256, (value \div 256) % 256>>

write_u16(out, value) == out \o ToBE(value, 2)

write_u32(out, value) == out \o ToBE(value, 4)

write_f32(out, value) == out \o ToBE(value, 4)

write_f64(out, value) == out \o ToBE(value[1], 4) \o ToBE(value[2], 4)

write_bytes(out, data) == out \o data

write_tag(out, tag) == Append(out, tag)

\* `data.len() as u16` keeps the low 16 bits
write_string(out, input) ==
    LET data == to_java_cesu8(input)
    IN  write_bytes(write_u16(out, Len(data) % 65536), data)

\* one element of byte_array_list: its u32 length, then its bytes
write_byte_array(out, element) == write_bytes(write_u32(out, Len(element)), element)

\* the call in the body of a `for element in data` loop; w names the method
write_one(out, element, w) ==
    CASE w = "write_i16" -> write_i16(out, element)
      [] w = "write_i32" -> write_i32(out, element)
      [] w = "write_i64" -> write_i64(out, element)
      [] w = "write_f32" -> write_f32(out, element)
      [] w = "write_f64" -> write_f64(out, element)
      [] w = "write_string" -> write_string(out, element)
      [] w = "write_byte_array" -> write_byte_array(out, element)

RECURSIVE write_each(_, _, _)

\* `for element in data { self.writer.w(element) }`
write_each(out, data, w) ==
    IF data = <<>> THEN out
    ELSE write_each(write_one(out, Head(data), w), Tail(data), w)

(***************************************************************************)
(* bin_encode::TagWriter.  self is [name, named, done]; a method returns   *)
(* [panic, out]: whether it panicked, and the output vector after it.      *)
(***************************************************************************)
\* a header that does not look at self.done
header_unchecked(self, out, tag) ==
    [panic |-> FALSE,
     out |-> IF self.named
             THEN write_string(write_tag(out, tag), self.name)
             ELSE write_tag(out, tag)]

header(self, out, tag) ==
    IF self.done
    THEN [panic |-> TRUE, out |-> out]
    ELSE [panic |-> FALSE,
          out |-> IF self.named
                  THEN write_string(write_tag(out, tag), self.name)
                  ELSE write_tag(out, tag)]

\* the output after the statements that follow `self.header(..)`, out, which a
\* panic in header leaves unwritten
AndThen(h, out) == IF h.panic THEN h ELSE [h EXCEPT !.out = out]

byte(self, out, value) ==
    LET h == header(self, out, T_Byte)
    IN  AndThen(h, write_i8(h.out, value))

short(self, out, value) ==
    LET h == header(self, out, T_Short)
    IN  AndThen(h, write_i16(h.out, value))

int(self, out, value) ==
    LET h == header(self, out, T_Int)
    IN  AndThen(h, write_i32(h.out, value))

long(self, out, value) ==
    LET h == header(self, out, T_Long)
    IN  AndThen(h, write_i64(h.out, value))

float(self, out, value) ==
    LET h == header(self, out, T_Float)
    IN  AndThen(h, write_f32(h.out, value))

double(self, out, value) ==
    LET h == header(self, out, T_Double)
    IN  AndThen(h, write_f64(h.out, value))

byte_array(self, out, data) ==
    LET h == header(self, out, T_ByteArray)
    IN  AndThen(h, write_bytes(write_u32(h.out, Len(data)), data))

string(self, out, value) ==
    LET h == header(self, out, T_String)
    IN  AndThen(h, write_string(h.out, value))

raw_string(self, out, data) ==
    LET h == header(self, out, T_String)
    IN  AndThen(h, write_bytes(write_u16(h.out, Len(data) % 65536), data))

int_array(self, out, data) ==
    LET h == header(self, out, T_IntArray)
    IN  AndThen(h, write_each(write_u32(h.out, Len(data)), data, "write_i32"))

\* the source passes TagType::IntArray to header here
long_array(self, out, data) ==
    LET h == header(self, out, T_IntArray)
    IN  AndThen(h, write_each(write_u32(h.out, Len(data)), data, "write_i64"))

byte_list(self, out, data) ==
    LET h == header(self, out, T_List)
    IN  AndThen(h, write_bytes(write_u32(write_tag(h.out, T_Byte), Len(data)), data))

short_list(self, out, data) ==
    LET h == header(self, out, T_List)
    IN  AndThen(h, write_each(write_u32(write_tag(h.out, T_Short), Len(data)),
                               data, "write_i16"))

int_list(self, out, data) ==
    LET h == header(self, out, T_List)
    IN  AndThen(h, write_each(write_u32(write_tag(h.out, T_Int), Len(data)),
                               data, "write_i32"))

long_list(self, out, data) ==
    LET h == header(self, out, T_List)
    IN  AndThen(h, write_each(write_u32(write_tag(h.out, T_Long), Len(data)),
                               data, "write_i64"))

float_list(self, out, data) ==
    LET h == header(self, out, T_List)
    IN  AndThen(h, write_each(write_u32(write_tag(h.out, T_Float), Len(data)),
                               data, "write_f32"))

double_list(self, out, data) ==
    LET h == header(self, out, T_List)
    IN  AndThen(h, write_each(write_u32(write_tag(h.out, T_Double), Len(data)),
                               data, "write_f64"))

string_list(self, out, data) ==
    LET h == header(self, out, T_List)
    IN  AndThen(h, write_each(write_u32(write_tag(h.out, T_String), Len(data)),
                               data, "write_string"))

byte_array_list(self, out, data) ==
    LET h == header(self, out, T_List)
    IN  AndThen(h, write_each(write_u32(write_tag(h.out, T_ByteArray), Len(data)),
                               data, "write_byte_array"))

uuid_bytes(self, out, bytes) ==
    int_array(self, out, <<read_i32(SubSeq(bytes, 1, 4)), read_i32(SubSeq(bytes, 5, 8)),
                           read_i32(SubSeq(bytes, 9, 12)), read_i32(SubSeq(bytes, 13, 16))>>)

(***************************************************************************)
(* Inputs of the encoder.                                                  *)
(***************************************************************************)
\* "hello world"
HelloWorld == <<104, 101, 108, 108, 111, 32, 119, 111, 114, 108, 100>>
\* "name"
NameText == <<110, 97, 109, 101>>
\* "Bananrama"
Bananrama == <<66, 97, 110, 97, 110, 114, 97, 109, 97>>

RootNames == {HelloWorld, <<>>}

\* "name", and U+00E9 (two bytes in the file)
FieldNames == {NameText, <<233>>}

Methods ==
    {"byte", "short", "int", "long", "float", "double", "byte_array", "string",
     "raw_string", "int_array", "long_array", "byte_list", "short_list",
     "int_list", "long_list", "float_list", "double_list", "string_list",
     "byte_array_list", "uuid_bytes"}

\* the arguments tried for each value method
Vals(m) ==
    CASE m = "byte" -> {-1, 127}
      [] m = "short" -> {-2}
      [] m = "int" -> {2147483647}
      [] m = "long" -> {<<2147483647, -1>>}
      [] m = "float" -> {1061158912}
      [] m = "double" -> {<<1071644672, 0>>}
      [] m = "byte_array" -> {<<>>, <<1, 255>>}
      [] m = "string" -> {Bananrama, <<0, 128512>>}
      [] m = "raw_string" -> {<<192>>}
      [] m = "int_array" -> {<<1, -1>>}
      [] m = "long_array" -> {<<>>, << <<0, 1>> >>}
      [] m = "byte_list" -> {<<7>>}
      [] m = "short_list" -> {<<-2, 3>>}
      [] m = "int_list" -> {<<>>}
      [] m = "long_list" -> {<< <<0, 11>>, <<-1, -12>> >>}
      [] m = "float_list" -> {<<1061158912>>}
      [] m = "double_list" -> {<< <<1071644672, 0>> >>}
      [] m = "string_list" -> {<< <<97>>, <<>> >>}
      [] m = "byte_array_list" -> {<< <<1>>, <<>> >>}
      [] m = "uuid_bytes" -> {<<0, 1, 2, 3, 4, 5, 6, 7, 8, 9, 10, 11, 12, 13, 14, 255>>}

\* the TagWriter method named m
Call(m, self, out, v) ==
    CASE m = "byte" -> byte(self, out, v)
      [] m = "short" -> short(self, out, v)
      [] m = "int" -> int(self, out, v)
      [] m = "long" -> long(self, out, v)
      [] m = "float" -> float(self, out, v)
      [] m = "double" -> double(self, out, v)
      [] m = "byte_array" -> byte_array(self, out, v)
      [] m = "string" -> string(self, out, v)
      [] m = "raw_string" -> raw_string(self, out, v)
      [] m = "int_array" -> int_array(self, out, v)
      [] m = "long_array" -> long_array(self, out, v)
      [] m = "byte_list" -> byte_list(self, out, v)
      [] m = "short_list" -> short_list(self, out, v)
      [] m = "int_list" -> int_list(self, out, v)
      [] m = "long_list" -> long_list(self, out, v)
      [] m = "float_list" -> float_list(self, out, v)
      [] m = "double_list" -> double_list(self, out, v)
      [] m = "string_list" -> string_list(self, out, v)
      [] m = "byte_array_list" -> byte_array_list(self, out, v)
      [] m = "uuid_bytes" -> uuid_bytes(self, out, v)

(***************************************************************************)
(* State.                                                                  *)
(***************************************************************************)
VARIABLES
    output,     \* NbtWriter.output
    done,       \* NbtWriter.done
    stack,      \* the live builders, outermost first; each borrows the
                \* writer from the one before it, so only the last is usable
    panic,      \* "none", or the message of the panic that ended the run
    returned,   \* NbtWriter::finish has returned `output`
    docs,       \* history: the roots finished so far, as they were built
    lists,      \* history: every CompoundListWriter made, [start_offset, length, done]
    used,       \* history: calls counted against the bounds, compounds opened and
                \* closed, TagWriters that wrote their value
    limits,     \* the bounds of this run: calls allowed of each kind, value methods tried
    data,       \* Document.data
    res,        \* what the last decoder call returned: [fn, at, r]
    orig,       \* history: the buffer `data` was cut or altered from
    muts        \* history: the number of alterations made

vars == <<output, done, stack, panic, returned, docs, lists, used, limits, data, res, orig, muts>>

encvars == <<output, done, stack, panic, returned, docs, lists, used, limits>>

decvars == <<data, res, orig, muts>>

\* flat documents, every value method in every pair
Flat ==
    [roots |-> 1, fields |-> MaxFields, nested |-> 0, elems |-> 0,
     methods |-> Methods, names |-> FieldNames, rootnames |-> RootNames]

\* one nested builder, every value method inside and around it
Nest ==
    [roots |-> 1, fields |-> 1, nested |-> MaxNested, elems |-> MaxElems,
     methods |-> Methods, names |-> FieldNames, rootnames |-> {<<>>}]

\* nested builders inside nested builders and a second root, one value method
Deep ==
    [roots |-> MaxRoots, fields |-> MaxFields, nested |-> MaxNested + 1,
     elems |-> MaxElems, methods |-> {"long"}, names |-> {<<233>>},
     rootnames |-> {<<>>}]

Profiles == {Flat, Nest, Deep}

NoPanic == "none"

NoRes == [fn |-> "none", at |-> 0, r |-> <<>>]

\* a TagWriter made by CompoundWriter::field
new_field(name) ==
    [type |-> "tag", done |-> FALSE, named |-> TRUE, name |-> name,
     start_offset |-> 0, length |-> 0, lid |-> 0, role |-> "field",
     lent |-> FALSE, built |-> <<>>]

\* CompoundWriter::new; role and name say where the finished value belongs
CompoundWriter_new(role, name) ==
    [type |-> "compound", done |-> FALSE, named |-> FALSE, name |-> name,
     start_offset |-> 0, length |-> 0, lid |-> 0, role |-> role,
     lent |-> FALSE, built |-> <<>>]

\* CompoundListWriter::new: the element kind, then the placeholder count
CompoundListWriter_new(out, name, lid) ==
    LET o1 == write_tag(out, T_Compound)
        start_offset == Len(o1)
    IN  [out |-> write_u32(o1, 0),
         self |-> [type |-> "list", done |-> FALSE, named |-> FALSE, name |-> name,
                   start_offset |-> start_offset, length |-> 0, lid |-> lid,
                   role |-> "field", lent |-> FALSE, built |-> <<>>]]

Top == stack[Len(stack)]

Pop(s) == SubSeq(s, 1, Len(s) - 1)

\* the innermost compound or list of s: the one a finished value belongs to
Owner(s) ==
    CHOOSE i \in 1..Len(s) :
        s[i].type # "tag" /\ \A j \in (i + 1)..Len(s) : s[j].type = "tag"

AddBuilt(s, x) == [s EXCEPT ![Owner(s)].built = Append(@, x)]

Running == panic = NoPanic /\ ~returned

Init ==
    /\ output = <<>>
    /\ done = FALSE
    /\ stack = <<>>
    /\ panic = NoPanic
    /\ returned = FALSE
    /\ docs = <<>>
    /\ lists = <<>>
    /\ used = [roots |-> 0, fields |-> 0, nested |-> 0, elems |-> 0,
               opened |-> 0, closed |-> 0, written |-> 0]
    /\ limits \in Profiles
    /\ data = <<>>
    /\ res = NoRes
    /\ orig = <<>>
    /\ muts = 0

(***************************************************************************)
(* bin_encode: the builder calls.                                          *)
(***************************************************************************)
NbtWriter_root(name) ==
    /\ Running
    /\ stack = <<>>
    /\ used.roots < limits.roots
    /\ done' = TRUE
    /\ output' = write_string(write_tag(output, T_Compound), name)
    /\ stack' = <<CompoundWriter_new("root", name)>>
    /\ used' = [used EXCEPT !.roots = @ + 1, !.opened = @ + 1]
    /\ UNCHANGED <<panic, returned, docs, lists, limits, decvars>>

\* a finish that hands out the buffer whether or not root() was called
NbtWriter_finish_always ==
    /\ Running
    /\ stack = <<>>
    /\ panic' = NoPanic
    /\ returned' = TRUE
    /\ UNCHANGED <<output, done, stack, docs, lists, used, limits, decvars>>

NbtWriter_finish ==
    /\ Running
    /\ stack = <<>>
    /\ IF ~done
       THEN panic' = "NbtWriter::finish" /\ returned' = FALSE
       ELSE panic' = NoPanic /\ returned' = TRUE
    /\ UNCHANGED <<output, done, stack, docs, lists, used, limits, decvars>>

\* a field() taken from a compound further out while a builder inside it is
\* still alive
CompoundWriter_field_outer(name) ==
    /\ Running
    /\ \E i \in DOMAIN stack : stack[i].type = "compound"
    /\ used.fields < limits.fields
    /\ stack' = Append(stack, new_field(name))
    /\ used' = [used EXCEPT !.fields = @ + 1]
    /\ UNCHANGED <<output, done, panic, returned, docs, lists, limits, decvars>>

CompoundWriter_field(name) ==
    /\ Running
    /\ stack # <<>>
    /\ Top.type = "compound"
    /\ used.fields < limits.fields
    /\ stack' = Append(stack, new_field(name))
    /\ used' = [used EXCEPT !.fields = @ + 1]
    /\ UNCHANGED <<output, done, panic, returned, docs, lists, limits, decvars>>

\* a compound_field that writes the name before the kind
CompoundWriter_compound_field_name_first(name) ==
    /\ Running
    /\ stack # <<>>
    /\ Top.type = "compound"
    /\ used.nested < limits.nested
    /\ output' = write_tag(write_string(output, name), T_Compound)
    /\ stack' = Append(stack, CompoundWriter_new("field", name))
    /\ used' = [used EXCEPT !.nested = @ + 1, !.opened = @ + 1]
    /\ UNCHANGED <<done, panic, returned, docs, lists, limits, decvars>>

CompoundWriter_compound_field(name) ==
    /\ Running
    /\ stack # <<>>
    /\ Top.type = "compound"
    /\ used.nested < limits.nested
    /\ output' = write_string(write_tag(output, T_Compound), name)
    /\ stack' = Append(stack, CompoundWriter_new("field", name))
    /\ used' = [used EXCEPT !.nested = @ + 1, !.opened = @ + 1]
    /\ UNCHANGED <<done, panic, returned, docs, lists, limits, decvars>>

CompoundWriter_compound_list_field(name) ==
    /\ Running
    /\ stack # <<>>
    /\ Top.type = "compound"
    /\ used.nested < limits.nested
    /\ LET n == CompoundListWriter_new(
                    write_string(write_tag(output, T_List), name), name, Len(lists) + 1)
       IN  /\ output' = n.out
           /\ stack' = Append(stack, n.self)
           /\ lists' = Append(lists, [start_offset |-> n.self.start_offset,
                                      length |-> 0, done |-> FALSE])
    /\ used' = [used EXCEPT !.nested = @ + 1]
    /\ UNCHANGED <<done, panic, returned, docs, limits, decvars>>

\* a drop that never panics
CompoundWriter_drop_silent(self) == NoPanic

\* CompoundWriter::drop: the panic it raises, if any
CompoundWriter_drop(self) ==
    IF ~self.done
    THEN "finish() must be called on CompoundWriter before it goes out of scope."
    ELSE NoPanic

\* where the value of a finished compound or list goes
Deliver(s, self, value) ==
    IF self.role = "root" THEN s
    ELSE IF self.role = "element" THEN AddBuilt(s, value.v)
    ELSE AddBuilt(s, value)

\* finish(mut self): the End byte, done, and the drop of self at the end
CompoundWriter_finish ==
    /\ Running
    /\ stack # <<>>
    /\ Top.type = "compound"
    /\ output' = write_tag(output, T_End)
    /\ LET self == [Top EXCEPT !.done = TRUE]
           value == [name |-> self.name, m |-> "compound", v |-> self.built]
       IN  /\ panic' = CompoundWriter_drop(self)
           /\ stack' = Deliver(Pop(stack), self, value)
           /\ docs' = IF self.role = "root"
                      THEN Append(docs, [name |-> self.name, entries |-> self.built])
                      ELSE docs
    /\ used' = [used EXCEPT !.closed = @ + 1]
    /\ UNCHANGED <<done, returned, lists, limits, decvars>>

CompoundListWriter_element ==
    /\ Running
    /\ stack # <<>>
    /\ Top.type = "list"
    /\ used.elems < limits.elems
    /\ stack' = Append([stack EXCEPT ![Len(stack)].length = @ + 1],
                       CompoundWriter_new("element", <<>>))
    /\ lists' = [lists EXCEPT ![Top.lid].length = @ + 1]
    /\ used' = [used EXCEPT !.elems = @ + 1, !.opened = @ + 1]
    /\ UNCHANGED <<output, done, panic, returned, docs, limits, decvars>>

\* a drop that never panics
CompoundListWriter_drop_silent(self) == NoPanic

\* CompoundListWriter::drop: the panic it raises, if any
CompoundListWriter_drop(self) ==
    IF ~self.done
    THEN "finish() must be called on CompoundListWriter before going out of scope"
    ELSE NoPanic

\* a loop that starts one byte late
Backpatch_late(vec, start_offset, bytes) ==
    [k \in 1..Len(vec) |->
        IF k - 1 >= start_offset + 1 /\ k - 1 < start_offset + 1 + Len(bytes)
        THEN bytes[k - start_offset - 1]
        ELSE vec[k]]

\* the loop of CompoundListWriter::finish: vec[start_offset + i] = bytes[i]
Backpatch(vec, start_offset, bytes) ==
    [k \in 1..Len(vec) |->
        IF k - 1 >= start_offset /\ k - 1 < start_offset + Len(bytes)
        THEN bytes[k - start_offset]
        ELSE vec[k]]

CompoundListWriter_finish ==
    /\ Running
    /\ stack # <<>>
    /\ Top.type = "list"
    /\ output' = Backpatch(output, Top.start_offset, ToBE(Top.length, 4))
    /\ LET self == [Top EXCEPT !.done = TRUE]
           value == [name |-> self.name, m |-> "compound_list", v |-> self.built]
       IN  /\ panic' = CompoundListWriter_drop(self)
           /\ stack' = AddBuilt(Pop(stack), value)
    /\ lists' = [lists EXCEPT ![Top.lid].done = TRUE]
    /\ UNCHANGED <<done, returned, docs, used, limits, decvars>>

\* any value method of TagWriter other than compound and compound_list
TagWriter_value(m, v) ==
    /\ Running
    /\ stack # <<>>
    /\ Top.type = "tag"
    /\ ~Top.lent
    /\ LET r == Call(m, Top, output, v)
       IN  /\ output' = r.out
           /\ IF r.panic
              THEN /\ panic' = "TagWriter can only be used once"
                   /\ stack' = stack
              ELSE /\ panic' = NoPanic
                   /\ stack' = AddBuilt([stack EXCEPT ![Len(stack)].done = TRUE],
                                        [name |-> Top.name, m |-> m, v |-> v])
           /\ used' = IF r.panic THEN used ELSE [used EXCEPT !.written = @ + 1]
    /\ UNCHANGED <<done, returned, docs, lists, limits, decvars>>

\* compound(&'a mut self): the TagWriter stays borrowed for the rest of its life
TagWriter_compound ==
    /\ Running
    /\ stack # <<>>
    /\ Top.type = "tag"
    /\ ~Top.lent
    /\ used.nested < limits.nested
    /\ LET h == header(Top, output, T_Compound)
       IN  /\ output' = h.out
           /\ IF h.panic
              THEN /\ panic' = "TagWriter can only be used once"
                   /\ stack' = stack
                   /\ used' = used
              ELSE /\ panic' = NoPanic
                   /\ stack' = Append([stack EXCEPT ![Len(stack)].done = TRUE,
                                                    ![Len(stack)].lent = TRUE],
                                      CompoundWriter_new("field", Top.name))
                   /\ used' = [used EXCEPT !.nested = @ + 1, !.opened = @ + 1,
                                            !.written = @ + 1]
    /\ UNCHANGED <<done, returned, docs, lists, limits, decvars>>

TagWriter_compound_list ==
    /\ Running
    /\ stack # <<>>
    /\ Top.type = "tag"
    /\ ~Top.lent
    /\ used.nested < limits.nested
    /\ LET h == header(Top, output, T_List)
           n == CompoundListWriter_new(h.out, Top.name, Len(lists) + 1)
       IN  IF h.panic
           THEN /\ panic' = "TagWriter can only be used once"
                /\ output' = h.out
                /\ UNCHANGED <<stack, used, lists>>
           ELSE /\ panic' = NoPanic
                /\ output' = n.out
                /\ stack' = Append([stack EXCEPT ![Len(stack)].done = TRUE,
                                                 ![Len(stack)].lent = TRUE],
                                   n.self)
                /\ lists' = Append(lists, [start_offset |-> n.self.start_offset,
                                           length |-> 0, done |-> FALSE])
                /\ used' = [used EXCEPT !.nested = @ + 1, !.written = @ + 1]
    /\ UNCHANGED <<done, returned, docs, limits, decvars>>

\* an end of scope that never panics
ScopeEnd_quiet ==
    /\ Running
    /\ stack # <<>>
    /\ panic' = NoPanic
    /\ stack' = Pop(stack)
    /\ UNCHANGED <<output, done, returned, docs, lists, used, limits, decvars>>

\* the innermost builder reaches the end of its scope without finish();
\* TagWriter has no Drop impl
ScopeEnd ==
    /\ Running
    /\ stack # <<>>
    /\ panic' = (CASE Top.type = "compound" -> CompoundWriter_drop(Top)
                   [] Top.type = "list" -> CompoundListWriter_drop(Top)
                   [] Top.type = "tag" -> NoPanic)
    /\ stack' = Pop(stack)
    /\ UNCHANGED <<output, done, returned, docs, lists, used, limits, decvars>>

(***************************************************************************)
(* bin_decode.  A reader is [position, types, advances, texts, reserved]:  *)
(* Reader.position, and as history the offsets read_type has read a byte   *)
(* at, the number of advance() calls and the 1-based indexes of the bytes  *)
(* NbtString::read has sliced as text.  A read returns [err, rd, val]: the *)
(* ParseError (or NoErr), the reader after it, and the value read.         *)
(* The value is the one returned when every Vec::reserve is granted; the   *)
(* largest count handed to Vec::reserve is kept as the history `reserved`.  *)
(***************************************************************************)
NoErr == [e |-> "none", tag |-> 0, offset |-> 0]

EOF == [e |-> "EOF", tag |-> 0, offset |-> 0]

UnknownTag(tag, offset) == [e |-> "UnknownTag", tag |-> tag, offset |-> offset]

UnexpectedEndTag == [e |-> "UnexpectedEndTag", tag |-> 0, offset |-> 0]

IncorrectStartTag(tag) == [e |-> "IncorrectStartTag", tag |-> tag, offset |-> 0]

Ok(rd, val) == [err |-> NoErr, rd |-> rd, val |-> val]

Err(rd, err) == [err |-> err, rd |-> rd, val |-> <<>>]

IsErr(r) == r.err.e # "none"

Reader_new ==
    [position |-> 0, types |-> <<>>, advances |-> 0, texts |-> {}, reserved |-> 0]

\* an advance that moves the position when it fails, too
advance_moving(buffer, rd, n) ==
    IF Len(buffer) < rd.position + n
    THEN Err([rd EXCEPT !.position = @ + n, !.advances = @ + 1], EOF)
    ELSE Ok([rd EXCEPT !.position = @ + n, !.advances = @ + 1],
            SubSeq(buffer, rd.position + 1, rd.position + n))

advance(buffer, rd, n) ==
    IF Len(buffer) < rd.position + n
    THEN Err([rd EXCEPT !.advances = @ + 1], EOF)
    ELSE Ok([rd EXCEPT !.position = @ + n, !.advances = @ + 1],
            SubSeq(buffer, rd.position + 1, rd.position + n))

\* a read_type that takes the offset after the byte is read
read_type_late(buffer, rd) ==
    LET a == advance(buffer, rd, 1)
        seen == [a.rd EXCEPT !.types = Append(@, rd.position)]
    IN  IF IsErr(a) THEN a
        ELSE IF a.val[1] <= 12 THEN Ok(seen, a.val[1])
        ELSE Err(seen, UnknownTag(a.val[1], a.rd.position))

read_type(buffer, rd) ==
    LET offset == rd.position
        a == advance(buffer, rd, 1)
        seen == [a.rd EXCEPT !.types = Append(@, offset)]
    IN  IF IsErr(a) THEN a
        ELSE IF a.val[1] <= 12 THEN Ok(seen, a.val[1])
        ELSE Err(seen, UnknownTag(a.val[1], offset))

\* `length as usize * T::SIZE`, in the saturated representation of read_u32
usize_mul(length, size) == IF length >= Huge \div size THEN Huge ELSE length * size

read_byte_array(buffer, rd) ==
    LET l == advance(buffer, rd, 4)
    IN  IF IsErr(l) THEN l ELSE advance(buffer, l.rd, read_u32(l.val))

\* the error of NbtString::decode
Cesu8DecodingError == [e |-> "Cesu8DecodingError", tag |-> 0, offset |-> 0]

NbtString_decode(self) == from_java_cesu8(self)

\* an NbtString::read that decodes the text and fails when it cannot
NbtString_read_decoding(buffer, rd) ==
    LET l == advance(buffer, rd, 2)
        d == advance(buffer, l.rd, read_u16(l.val))
    IN  IF IsErr(l) THEN l
        ELSE IF IsErr(d) THEN d
        ELSE IF ~NbtString_decode(d.val).ok THEN Err(d.rd, Cesu8DecodingError)
        ELSE Ok([d.rd EXCEPT !.texts = @ \cup ((l.rd.position + 1)..d.rd.position)],
                d.val)

NbtString_read(buffer, rd) ==
    LET l == advance(buffer, rd, 2)
        d == advance(buffer, l.rd, read_u16(l.val))
    IN  IF IsErr(l) THEN l
        ELSE IF IsErr(d) THEN d
        ELSE Ok([d.rd EXCEPT !.texts = @ \cup ((l.rd.position + 1)..d.rd.position)],
                d.val)

\* NbtArray<T>::read; the view is [data, size], size being T::SIZE
\* a read that takes the count for the number of bytes
NbtArray_read_bytes(buffer, rd, size) ==
    LET l == advance(buffer, rd, 4)
        d == advance(buffer, l.rd, read_u32(l.val))
    IN  IF IsErr(l) THEN l
        ELSE IF IsErr(d) THEN d
        ELSE Ok(d.rd, [data |-> d.val, size |-> size])

NbtArray_read(buffer, rd, size) ==
    LET l == advance(buffer, rd, 4)
        d == advance(buffer, l.rd, usize_mul(read_u32(l.val), size))
    IN  IF IsErr(l) THEN l
        ELSE IF IsErr(d) THEN d
        ELSE Ok(d.rd, [data |-> d.val, size |-> size])

NbtArray_len(a) == Len(a.data) \div a.size

\* NbtPrimitive::read for the element type of stride size
NbtPrimitive_read(bs, size) ==
    CASE size = 2 -> read_i16(bs)
      [] size = 4 -> read_i32(bs)
      [] size = 8 -> read_i64(bs)

\* an NbtArray::get that takes the index for the byte offset
NbtArray_get_unscaled(a, index) ==
    IF index < NbtArray_len(a)
    THEN [some |-> TRUE,
          v |-> NbtPrimitive_read(SubSeq(a.data, index + 1, index + a.size), a.size)]
    ELSE [some |-> FALSE, v |-> 0]

\* Option<T>: [some, v]
NbtArray_get(a, index) ==
    IF index < NbtArray_len(a)
    THEN [some |-> TRUE,
          v |-> NbtPrimitive_read(SubSeq(a.data, index * a.size + 1,
                                         index * a.size + a.size), a.size)]
    ELSE [some |-> FALSE, v |-> 0]

RECURSIVE to_vec_loop(_, _, _)

\* `for i in 0..self.len() { v.push(self.get(i).unwrap()) }`, from index i
to_vec_loop(a, i, v) ==
    IF i >= NbtArray_len(a) THEN v
    ELSE to_vec_loop(a, i + 1, Append(v, NbtArray_get(a, i).v))

NbtArray_to_vec(a) == to_vec_loop(a, 0, <<>>)

\* NbtArrayIter: [array, index]
NbtArray_iter(a) == [array |-> a, index |-> 0]

\* NbtArrayIter::next: [result, self], the item and the iterator after it
NbtArrayIter_next(self) ==
    [result |-> NbtArray_get(self.array, self.index),
     self |-> [self EXCEPT !.index = @ + 1]]

RECURSIVE for_each(_, _)

\* `for x in iter`: the items next() yields until it yields None
for_each(iter, items) ==
    LET n == NbtArrayIter_next(iter)
    IN  IF n.result.some THEN for_each(n.self, Append(items, n.result.v)) ELSE items

RECURSIVE Tag_read(_, _, _)
RECURSIVE List_read(_, _)
RECURSIVE Compound_loop(_, _, _)
RECURSIVE NbtList_loop(_, _, _, _, _)

Compound_read(buffer, rd) == Compound_loop(buffer, rd, <<>>)

\* <T as NbtParse>::read for the element type of an NbtList<T>
Element_read(kind, buffer, rd) ==
    CASE kind = T_ByteArray -> read_byte_array(buffer, rd)
      [] kind = T_String -> NbtString_read(buffer, rd)
      [] kind = T_List -> List_read(buffer, rd)
      [] kind = T_Compound -> Compound_read(buffer, rd)
      [] kind = T_IntArray -> NbtArray_read(buffer, rd, 4)
      [] kind = T_LongArray -> NbtArray_read(buffer, rd, 8)

\* `for _index in 0..length { entries.push(T::read(reader)?) }`, with length
\* rounds left to run
NbtList_loop(kind, buffer, rd, length, entries) ==
    IF length = 0 THEN Ok(rd, entries)
    ELSE LET x == Element_read(kind, buffer, rd)
         IN  IF IsErr(x) THEN x
             ELSE NbtList_loop(kind, buffer, x.rd,
                               IF length = Huge THEN Huge ELSE length - 1,
                               Append(entries, x.val))

\* entries.reserve(length as usize): the request is kept in the reader
reserve(rd, length) ==
    [rd EXCEPT !.reserved = IF length > @ THEN length ELSE @]

NbtList_read(kind, buffer, rd) ==
    LET l == advance(buffer, rd, 4)
    IN  IF IsErr(l) THEN l
        ELSE NbtList_loop(kind, buffer, reserve(l.rd, read_u32(l.val)),
                          read_u32(l.val), <<>>)

\* a List is [lkind, items]
AsList(lkind, r) == IF IsErr(r) THEN r ELSE Ok(r.rd, [lkind |-> lkind, items |-> r.val])

\* a List::read that gives List::Float for the kind Int and List::Int for
\* the kind Float
List_read_swapped(buffer, rd) ==
    LET t == read_type(buffer, rd)
        tag == t.val
    IN  IF IsErr(t) THEN t
        ELSE CASE tag = T_End ->
                    LET l == advance(buffer, t.rd, 4)
                    IN  IF IsErr(l) THEN l
                        ELSE IF read_u32(l.val) = 0
                        THEN Ok(l.rd, [lkind |-> T_Byte, items |-> <<>>])
                        ELSE Err(l.rd, UnexpectedEndTag)
               [] tag = T_Byte -> AsList(T_Byte, read_byte_array(buffer, t.rd))
               [] tag = T_Short -> AsList(T_Short, NbtArray_read(buffer, t.rd, 2))
               [] tag = T_Int -> AsList(T_Float, NbtArray_read(buffer, t.rd, 4))
               [] tag = T_Long -> AsList(T_Long, NbtArray_read(buffer, t.rd, 8))
               [] tag = T_Float -> AsList(T_Int, NbtArray_read(buffer, t.rd, 4))
               [] tag = T_Double -> AsList(T_Double, NbtArray_read(buffer, t.rd, 8))
               [] OTHER -> AsList(tag, NbtList_read(tag, buffer, t.rd))

\* a List::read that accepts any count after the End kind
List_read_any_count(buffer, rd) ==
    LET t == read_type(buffer, rd)
        tag == t.val
    IN  IF IsErr(t) THEN t
        ELSE CASE tag = T_End ->
                    LET l == advance(buffer, t.rd, 4)
                    IN  IF IsErr(l) THEN l
                        ELSE Ok(l.rd, [lkind |-> T_Byte, items |-> <<>>])
               [] tag = T_Byte -> AsList(T_Byte, read_byte_array(buffer, t.rd))
               [] tag = T_Short -> AsList(T_Short, NbtArray_read(buffer, t.rd, 2))
               [] tag = T_Int -> AsList(T_Int, NbtArray_read(buffer, t.rd, 4))
               [] tag = T_Long -> AsList(T_Long, NbtArray_read(buffer, t.rd, 8))
               [] tag = T_Float -> AsList(T_Float, NbtArray_read(buffer, t.rd, 4))
               [] tag = T_Double -> AsList(T_Double, NbtArray_read(buffer, t.rd, 8))
               [] OTHER -> AsList(tag, NbtList_read(tag, buffer, t.rd))

List_read(buffer, rd) ==
    LET t == read_type(buffer, rd)
        tag == t.val
    IN  IF IsErr(t) THEN t
        ELSE CASE tag = T_End ->
                    LET l == advance(buffer, t.rd, 4)
                    IN  IF IsErr(l) THEN l
                        ELSE IF read_u32(l.val) = 0
                        THEN Ok(l.rd, [lkind |-> T_Byte, items |-> <<>>])
                        ELSE Err(l.rd, UnexpectedEndTag)
               [] tag = T_Byte -> AsList(T_Byte, read_byte_array(buffer, t.rd))
               [] tag = T_Short -> AsList(T_Short, NbtArray_read(buffer, t.rd, 2))
               [] tag = T_Int -> AsList(T_Int, NbtArray_read(buffer, t.rd, 4))
               [] tag = T_Long -> AsList(T_Long, NbtArray_read(buffer, t.rd, 8))
               [] tag = T_Float -> AsList(T_Float, NbtArray_read(buffer, t.rd, 4))
               [] tag = T_Double -> AsList(T_Double, NbtArray_read(buffer, t.rd, 8))
               [] OTHER -> AsList(tag, NbtList_read(tag, buffer, t.rd))

\* a Tag is [kind, val]
AsTag(kind, r) == IF IsErr(r) THEN r ELSE Ok(r.rd, [kind |-> kind, val |-> r.val])

\* a primitive arm of Tag::read: advance(n), then the conversion of its bytes
Prim(kind, a) ==
    IF IsErr(a) THEN a
    ELSE Ok(a.rd, [kind |-> kind,
                   val |-> CASE kind = T_Byte -> as_i8(a.val[1])
                             [] kind = T_Short -> read_i16(a.val)
                             [] kind \in {T_Int, T_Float} -> read_i32(a.val)
                             [] kind \in {T_Long, T_Double} -> read_i64(a.val)])

\* a Tag::read that takes a byte before it refuses the kind End
Tag_read_consuming(tag, buffer, rd) ==
    CASE tag = T_End -> Err(advance(buffer, rd, 1).rd, UnexpectedEndTag)
      [] tag = T_Byte -> Prim(T_Byte, advance(buffer, rd, 1))
      [] tag = T_Short -> Prim(T_Short, advance(buffer, rd, 2))
      [] tag = T_Int -> Prim(T_Int, advance(buffer, rd, 4))
      [] tag = T_Long -> Prim(T_Long, advance(buffer, rd, 8))
      [] tag = T_Float -> Prim(T_Float, advance(buffer, rd, 4))
      [] tag = T_Double -> Prim(T_Double, advance(buffer, rd, 8))
      [] tag = T_String -> AsTag(T_String, NbtString_read(buffer, rd))
      [] tag = T_List -> AsTag(T_List, List_read(buffer, rd))
      [] tag = T_Compound -> AsTag(T_Compound, Compound_read(buffer, rd))
      [] tag = T_ByteArray -> AsTag(T_ByteArray, read_byte_array(buffer, rd))
      [] tag = T_IntArray -> AsTag(T_IntArray, NbtArray_read(buffer, rd, 4))
      [] tag = T_LongArray -> AsTag(T_LongArray, NbtArray_read(buffer, rd, 8))

Tag_read(tag, buffer, rd) ==
    CASE tag = T_End -> Err(rd, UnexpectedEndTag)
      [] tag = T_Byte -> Prim(T_Byte, advance(buffer, rd, 1))
      [] tag = T_Short -> Prim(T_Short, advance(buffer, rd, 2))
      [] tag = T_Int -> Prim(T_Int, advance(buffer, rd, 4))
      [] tag = T_Long -> Prim(T_Long, advance(buffer, rd, 8))
      [] tag = T_Float -> Prim(T_Float, advance(buffer, rd, 4))
      [] tag = T_Double -> Prim(T_Double, advance(buffer, rd, 8))
      [] tag = T_String -> AsTag(T_String, NbtString_read(buffer, rd))
      [] tag = T_List -> AsTag(T_List, List_read(buffer, rd))
      [] tag = T_Compound -> AsTag(T_Compound, Compound_read(buffer, rd))
      [] tag = T_ByteArray -> AsTag(T_ByteArray, read_byte_array(buffer, rd))
      [] tag = T_IntArray -> AsTag(T_IntArray, NbtArray_read(buffer, rd, 4))
      [] tag = T_LongArray -> AsTag(T_LongArray, NbtArray_read(buffer, rd, 8))

\* a loop that hands every kind to Tag::read, End too
Compound_loop_dispatching(buffer, rd, entries) ==
    LET t == read_type(buffer, rd)
        name == NbtString_read(buffer, t.rd)
        value == Tag_read(t.val, buffer, name.rd)
    IN  IF IsErr(t) THEN t
        ELSE IF IsErr(name) THEN name
        ELSE IF IsErr(value) THEN value
        ELSE Compound_loop(buffer, value.rd,
                           Append(entries, [name |-> name.val, value |-> value.val]))

\* a loop that returns the entries it has when a value fails to read
Compound_loop_partial(buffer, rd, entries) ==
    LET t == read_type(buffer, rd)
        name == NbtString_read(buffer, t.rd)
        value == Tag_read(t.val, buffer, name.rd)
    IN  IF IsErr(t) THEN t
        ELSE IF t.val = T_End THEN Ok(t.rd, entries)
        ELSE IF IsErr(name) THEN name
        ELSE IF IsErr(value) THEN Ok(value.rd, entries)
        ELSE Compound_loop(buffer, value.rd,
                           Append(entries, [name |-> name.val, value |-> value.val]))

\* a loop that takes the end of the buffer for the End byte
Compound_loop_to_end(buffer, rd, entries) ==
    LET t == read_type(buffer, rd)
        name == NbtString_read(buffer, t.rd)
        value == Tag_read(t.val, buffer, name.rd)
    IN  IF IsErr(t) THEN (IF t.err = EOF THEN Ok(t.rd, entries) ELSE t)
        ELSE IF t.val = T_End THEN Ok(t.rd, entries)
        ELSE IF IsErr(name) THEN name
        ELSE IF IsErr(value) THEN value
        ELSE Compound_loop(buffer, value.rd,
                           Append(entries, [name |-> name.val, value |-> value.val]))

\* the loop of Compound::read, with the entries pushed so far
Compound_loop(buffer, rd, entries) ==
    LET t == read_type(buffer, rd)
        name == NbtString_read(buffer, t.rd)
        value == Tag_read(t.val, buffer, name.rd)
    IN  IF IsErr(t) THEN t
        ELSE IF t.val = T_End THEN Ok(t.rd, entries)
        ELSE IF IsErr(name) THEN name
        ELSE IF IsErr(value) THEN value
        ELSE Compound_loop(buffer, value.rd,
                           Append(entries, [name |-> name.val, value |-> value.val]))

\* NbtString == &str: the bytes decode, and to the same text
NbtString_eq(self, other) ==
    LET result == from_java_cesu8(self)
    IN  IF result.ok THEN result.text = other ELSE FALSE

Compound_len(entries) == Len(entries)

\* Option<&Entry>: [some, index, entry], index telling which entry is borrowed
None == [some |-> FALSE, index |-> 0, entry |-> <<>>]

Some(index, entry) == [some |-> TRUE, index |-> index, entry |-> entry]

RECURSIVE find_loop(_, _, _)

\* `for entry in &self.entries`, at the entry of index i
find_loop(entries, key, i) ==
    IF i > Len(entries) THEN None
    ELSE IF NbtString_eq(entries[i].name, key) THEN Some(i, entries[i])
    ELSE find_loop(entries, key, i + 1)

\* a search that keeps the last entry that matches
find_last_key(entries, key) ==
    LET hits == {i \in DOMAIN entries : NbtString_eq(entries[i].name, key)}
    IN  IF hits = {} THEN None
        ELSE LET i == CHOOSE h \in hits : \A g \in hits : g <= h
             IN  Some(i, entries[i])

find_first_key(entries, key) == find_loop(entries, key, 1)

\* a parse that looks for the end of the buffer after the root
Document_parse_to_end(buffer) ==
    LET t == read_type(buffer, Reader_new)
        name == NbtString_read(buffer, t.rd)
        root == Compound_read(buffer, name.rd)
        after == read_type(buffer, root.rd)
    IN  IF IsErr(t) THEN t
        ELSE IF t.val # T_Compound THEN Err(t.rd, IncorrectStartTag(t.val))
        ELSE IF IsErr(name) THEN name
        ELSE IF IsErr(root) THEN root
        ELSE IF after.err # EOF THEN Err(after.rd, UnexpectedEndTag)
        ELSE Ok(root.rd, [name |-> name.val, root |-> root.val])

\* a parse that reports the kind it wanted, not the kind it read
Document_parse_expected(buffer) ==
    LET t == read_type(buffer, Reader_new)
        name == NbtString_read(buffer, t.rd)
        root == Compound_read(buffer, name.rd)
    IN  IF IsErr(t) THEN t
        ELSE IF t.val # T_Compound THEN Err(t.rd, IncorrectStartTag(T_Compound))
        ELSE IF IsErr(name) THEN name
        ELSE IF IsErr(root) THEN root
        ELSE Ok(root.rd, [name |-> name.val, root |-> root.val])

\* Document::parse: Ok((name, root)) is [name, root]
Document_parse(buffer) ==
    LET t == read_type(buffer, Reader_new)
        name == NbtString_read(buffer, t.rd)
        root == Compound_read(buffer, name.rd)
    IN  IF IsErr(t) THEN t
        ELSE IF t.val # T_Compound THEN Err(t.rd, IncorrectStartTag(t.val))
        ELSE IF IsErr(name) THEN name
        ELSE IF IsErr(root) THEN root
        ELSE Ok(root.rd, [name |-> name.val, root |-> root.val])

(***************************************************************************)
(* Encoder, continued: the finished buffer is handed to the decoder.       *)
(***************************************************************************)
\* Document::load of the returned buffer (it starts with 0A: no gzip header)
Document_load ==
    /\ returned
    /\ panic = NoPanic
    /\ data # output
    /\ data' = output
    /\ res' = NoRes
    /\ UNCHANGED <<orig, muts>>
    /\ UNCHANGED encvars

\* doc.parse()
Parse ==
    /\ data # <<>> \/ muts > 0
    /\ res.fn = "none"
    /\ res' = [fn |-> "parse", at |-> 0, r |-> Document_parse(data)]
    /\ UNCHANGED <<data, orig, muts>>
    /\ UNCHANGED encvars

Next ==
    \/ \E name \in limits.rootnames : NbtWriter_root(name)
    \/ NbtWriter_finish
    \/ \E name \in limits.names : CompoundWriter_field(name)
    \/ \E name \in limits.names : CompoundWriter_compound_field(name)
    \/ \E name \in limits.names : CompoundWriter_compound_list_field(name)
    \/ CompoundWriter_finish
    \/ CompoundListWriter_element
    \/ CompoundListWriter_finish
    \/ \E m \in limits.methods : \E v \in Vals(m) : TagWriter_value(m, v)
    \/ TagWriter_compound
    \/ TagWriter_compound_list
    \/ ScopeEnd
    \/ Document_load
    \/ Parse

Spec == Init /\ [][Next]_vars

(***************************************************************************)
(* The decoder on its own: buffers written out by hand, cut short or with  *)
(* one byte replaced, then parsed.                                         *)
(***************************************************************************)
U16(n) == <<n \div 256, n % 256>>

U32(n) == <<0, 0, n \div 256, n % 256>>

\* kind byte, name, payload
Named(kind, name, payload) == <<kind>> \o U16(Len(name)) \o name \o payload

\* a document: the root compound called name, its entries, End
Doc(name, entries) == Named(T_Compound, name, entries) \o <<T_End>>

\* "hello_world.nbt"
HelloFile ==
    <<10, 0, 11, 104, 101, 108, 108, 111, 32, 119, 111, 114, 108, 100,
      8, 0, 4, 110, 97, 109, 101, 0, 9, 66, 97, 110, 97, 110, 114, 97, 109, 97, 0>>

Seeds ==
    << Doc(<<>>, <<>>),
       HelloFile,
       \* Byte, Short, Int
       Doc(<<97>>, Named(T_Byte, <<98>>, <<255>>) \o Named(T_Short, <<>>, <<128, 1>>)
                   \o Named(T_Int, <<98>>, <<255, 255, 255, 254>>)),
       \* Long, Float, Double
       Doc(<<>>, Named(T_Long, <<108>>, <<127, 255, 255, 255, 255, 255, 255, 255>>)
                 \o Named(T_Float, <<>>, <<63, 64, 0, 0>>)
                 \o Named(T_Double, <<>>, <<63, 224, 0, 0, 0, 0, 0, 0>>)),
       \* ByteArray, String, IntArray, LongArray
       Doc(<<>>, Named(T_ByteArray, <<>>, U32(2) \o <<1, 255>>)
                 \o Named(T_String, <<>>, U16(2) \o <<192, 128>>)
                 \o Named(T_IntArray, <<>>, U32(1) \o <<0, 0, 0, 7>>)
                 \o Named(T_LongArray, <<>>, U32(1) \o <<0, 0, 0, 0, 0, 0, 0, 7>>)),
       \* lists of End (empty), Byte, Short
       Doc(<<>>, Named(T_List, <<101>>, <<T_End>> \o U32(0))
                 \o Named(T_List, <<>>, <<T_Byte>> \o U32(2) \o <<128, 1>>)
                 \o Named(T_List, <<>>, <<T_Short>> \o U32(2) \o <<0, 1, 255, 255>>)),
       \* a list of lists of different kinds
       Doc(<<>>, Named(T_List, <<>>,
                       <<T_List>> \o U32(3)
                       \o (<<T_Byte>> \o U32(1) \o <<5>>)
                       \o (<<T_End>> \o U32(0))
                       \o (<<T_String>> \o U32(1) \o U16(1) \o <<97>>))),
       \* a list of two compounds, a nested compound, a name twice
       Doc(<<>>, Named(T_List, <<99>>,
                       <<T_Compound>> \o U32(2)
                       \o (Named(T_Byte, <<>>, <<1>>) \o <<T_End>>)
                       \o (Named(T_Byte, <<>>, <<2>>) \o <<T_End>>))
                 \o Named(T_Compound, <<99>>, Named(T_Byte, <<120>>, <<3>>) \o <<T_End>>)
                 \o Named(T_Byte, <<99>>, <<4>>)),
       \* lists of ByteArray, IntArray and LongArray; Int, Long, Float, Double
       Doc(<<>>, Named(T_List, <<>>, <<T_ByteArray>> \o U32(2) \o U32(1) \o <<9>> \o U32(0))
                 \o Named(T_List, <<>>, <<T_IntArray>> \o U32(1) \o U32(1) \o <<0, 0, 0, 1>>)
                 \o Named(T_List, <<>>, <<T_LongArray>> \o U32(1) \o U32(0))
                 \o Named(T_List, <<>>, <<T_Int>> \o U32(1) \o <<0, 0, 1, 0>>)
                 \o Named(T_List, <<>>, <<T_Long>> \o U32(0))
                 \o Named(T_List, <<>>, <<T_Float>> \o U32(0))
                 \o Named(T_List, <<>>, <<T_Double>> \o U32(1) \o <<0, 0, 0, 0, 0, 0, 0, 0>>))
    >>

\* the values a byte is replaced by
SubstBytes == {0, 1, 9, 10, 13, 255}

DecInit ==
    /\ output = <<>>
    /\ done = FALSE
    /\ stack = <<>>
    /\ panic = NoPanic
    /\ returned = FALSE
    /\ docs = <<>>
    /\ lists = <<>>
    /\ used = [roots |-> 0, fields |-> 0, nested |-> 0, elems |-> 0,
               opened |-> 0, closed |-> 0, written |-> 0]
    /\ limits = Flat
    /\ data \in {Seeds[i] : i \in DOMAIN Seeds}
    /\ res = NoRes
    /\ orig = data
    /\ muts = 0

\* the file is cut after its first k bytes
Truncate(k) ==
    /\ muts < MaxMut
    /\ k < Len(data)
    /\ orig' = data
    /\ data' = SubSeq(data, 1, k)
    /\ res' = NoRes
    /\ muts' = muts + 1
    /\ UNCHANGED encvars

\* the byte at offset i becomes b
Substitute(i, b) ==
    /\ muts < MaxMut
    /\ i < Len(data)
    /\ data[i + 1] # b
    /\ orig' = data
    /\ data' = [data EXCEPT ![i + 1] = b]
    /\ res' = NoRes
    /\ muts' = muts + 1
    /\ UNCHANGED encvars

\* List::read with the reader at offset p
ReadListAt(p) ==
    /\ res.fn = "none"
    /\ p <= Len(data)
    /\ res' = [fn |-> "List::read", at |-> p,
               r |-> List_read(data, [Reader_new EXCEPT !.position = p])]
    /\ UNCHANGED <<data, orig, muts>>
    /\ UNCHANGED encvars

\* the element sizes of the array kinds: i16, i32 and f32, i64 and f64
Strides == {2, 4, 8}

\* NbtArray<T>::read with the reader at offset p, T of the given size; then
\* len(), get(i) for every index up to two past the end, a `for` loop over
\* iter(), and to_vec()
ReadArrayAt(p, size) ==
    /\ res.fn = "none"
    /\ p <= Len(data)
    /\ LET a == NbtArray_read(data, [Reader_new EXCEPT !.position = p], size)
       IN  res' = [fn |-> "NbtArray::read", at |-> p,
                   r |-> IF IsErr(a) THEN a
                         ELSE [err |-> a.err, rd |-> a.rd, val |-> a.val,
                               len |-> NbtArray_len(a.val),
                               get |-> [i \in 0..(NbtArray_len(a.val) + 1) |->
                                            NbtArray_get(a.val, i)],
                               iterated |-> for_each(NbtArray_iter(a.val), <<>>),
                               vec |-> NbtArray_to_vec(a.val)]]
    /\ UNCHANGED <<data, orig, muts>>
    /\ UNCHANGED encvars

\* the keys looked up
Keys == {<<>>, <<98>>, <<99>>, NameText}

\* root.len() and root.find_first_key(key) on the root of a parsed document
FindFirstKey(key) ==
    /\ res.fn = "parse"
    /\ ~IsErr(res.r)
    /\ res' = [fn |-> "find_first_key", at |-> 0,
               r |-> [root |-> res.r.val.root, key |-> key,
                      len |-> Compound_len(res.r.val.root),
                      found |-> find_first_key(res.r.val.root, key)]]
    /\ UNCHANGED <<data, orig, muts>>
    /\ UNCHANGED encvars

DecNext ==
    \/ \E k \in 0..(Len(data) - 1) : Truncate(k)
    \/ \E i \in 0..(Len(data) - 1) : \E b \in SubstBytes : Substitute(i, b)
    \/ Parse
    \/ \E p \in 0..Len(data) : ReadListAt(p)
    \/ \E key \in Keys : FindFirstKey(key)
    \/ \E p \in 0..Len(data) : \E size \in Strides : ReadArrayAt(p, size)

DecSpec == DecInit /\ [][DecNext]_vars

(***************************************************************************)
(* What a decoded value must be for a value that was built.                *)
(***************************************************************************)
\* the bytes a text of the model has in a file, written out by hand
FileBytes(text) ==
    CASE text = <<233>> -> <<195, 169>>
      [] text = <<0, 128512>> -> <<192, 128, 237, 160, 189, 237, 184, 128>>
      [] OTHER -> text

\* the view a holds exactly the elements of v
ArrayIs(a, size, v) ==
    /\ a.size = size
    /\ NbtArray_len(a) = Len(v)
    /\ \A i \in 1..Len(v) : NbtArray_get(a, i - 1) = [some |-> TRUE, v |-> v[i]]
    /\ ~NbtArray_get(a, Len(v)).some

TextIs(bytes, text) == from_java_cesu8(bytes) = [ok |-> TRUE, text |-> text]

RECURSIVE Match(_, _)
RECURSIVE EntriesMatch(_, _)

\* the decoded Tag d is the value b that was built
Match(b, d) ==
    CASE b.m = "byte" -> d.kind = T_Byte /\ d.val = b.v
      [] b.m = "short" -> d.kind = T_Short /\ d.val = b.v
      [] b.m = "int" -> d.kind = T_Int /\ d.val = b.v
      [] b.m = "long" -> d.kind = T_Long /\ d.val = b.v
      [] b.m = "float" -> d.kind = T_Float /\ d.val = b.v
      [] b.m = "double" -> d.kind = T_Double /\ d.val = b.v
      [] b.m = "byte_array" -> d.kind = T_ByteArray /\ d.val = b.v
      [] b.m = "string" -> d.kind = T_String /\ TextIs(d.val, b.v)
      [] b.m = "raw_string" -> d.kind = T_String /\ d.val = b.v
      [] b.m = "int_array" -> d.kind = T_IntArray /\ ArrayIs(d.val, 4, b.v)
      [] b.m = "long_array" -> d.kind = T_LongArray /\ ArrayIs(d.val, 8, b.v)
      [] b.m = "uuid_bytes" -> d.kind = T_IntArray /\ d.val.size = 4 /\ d.val.data = b.v
      [] b.m = "byte_list" ->
            d.kind = T_List /\ d.val.lkind = T_Byte /\ d.val.items = b.v
      [] b.m = "short_list" ->
            d.kind = T_List /\ d.val.lkind = T_Short /\ ArrayIs(d.val.items, 2, b.v)
      [] b.m = "int_list" ->
            d.kind = T_List /\ d.val.lkind = T_Int /\ ArrayIs(d.val.items, 4, b.v)
      [] b.m = "long_list" ->
            d.kind = T_List /\ d.val.lkind = T_Long /\ ArrayIs(d.val.items, 8, b.v)
      [] b.m = "float_list" ->
            d.kind = T_List /\ d.val.lkind = T_Float /\ ArrayIs(d.val.items, 4, b.v)
      [] b.m = "double_list" ->
            d.kind = T_List /\ d.val.lkind = T_Double /\ ArrayIs(d.val.items, 8, b.v)
      [] b.m = "string_list" ->
            /\ d.kind = T_List /\ d.val.lkind = T_String
            /\ Len(d.val.items) = Len(b.v)
            /\ \A i \in 1..Len(b.v) : TextIs(d.val.items[i], b.v[i])
      [] b.m = "byte_array_list" ->
            d.kind = T_List /\ d.val.lkind = T_ByteArray /\ d.val.items = b.v
      [] b.m = "compound" -> d.kind = T_Compound /\ EntriesMatch(b.v, d.val)
      [] b.m = "compound_list" ->
            /\ d.kind = T_List /\ d.val.lkind = T_Compound
            /\ Len(d.val.items) = Len(b.v)
            /\ \A i \in 1..Len(b.v) : EntriesMatch(b.v[i], d.val.items[i])

\* same number of entries, in the same order, with the same names and values
EntriesMatch(bs, ds) ==
    /\ Len(ds) = Len(bs)
    /\ \A i \in 1..Len(bs) : TextIs(ds[i].name, bs[i].name) /\ Match(bs[i], ds[i].value)

\* the writer returned one document and the decoder has parsed it
Decoded == returned /\ res.fn = "parse" /\ Len(docs) = 1

(***************************************************************************)
(* C1.  Round trip: a document built through the builders and parsed by    *)
(* Document::parse comes back as it was built: the root name, the entries  *)
(* in order (repeated names kept), the kind of every value and of every    *)
(* list's elements, the contents of arrays and strings.                    *)
(***************************************************************************)
C1_RoundTrip ==
    Decoded =>
        /\ ~IsErr(res.r)
        /\ TextIs(res.r.val.name, docs[1].name)
        /\ EntriesMatch(docs[1].entries, res.r.val.root)

\* the only entry of the only document built, when there is exactly one
OnlyEntry == docs[1].entries[1]

\* exactly one document with exactly one entry, written by method m
BuiltOne(m) ==
    /\ returned
    /\ Len(docs) = 1
    /\ Len(docs[1].entries) = 1
    /\ OnlyEntry.m = m

(***************************************************************************)
(* C2.  root(N); field(F).string(V); root.finish(); writer.finish() gives  *)
(* the bytes 0A, len(N) as u16, N, 08, len(F) as u16, F, len(V) as u16, V, *)
(* 00 (hello_world.nbt for "hello world", "name", "Bananrama"), and        *)
(* parsing them gives the root name N and one entry, named F, a String     *)
(* that decodes to V.                                                      *)
(***************************************************************************)
C2_HelloWorld ==
    BuiltOne("string") =>
        LET N == FileBytes(docs[1].name)
            F == FileBytes(OnlyEntry.name)
            V == FileBytes(OnlyEntry.v)
        IN  /\ output = <<10, Len(N) \div 256, Len(N) % 256>> \o N
                        \o <<8, Len(F) \div 256, Len(F) % 256>> \o F
                        \o <<Len(V) \div 256, Len(V) % 256>> \o V \o <<0>>
            /\ (docs[1].name = HelloWorld /\ OnlyEntry.name = NameText
                    /\ OnlyEntry.v = Bananrama
                => output = HelloFile)
            /\ (res.fn = "parse" =>
                    /\ ~IsErr(res.r)
                    /\ TextIs(res.r.val.name, docs[1].name)
                    /\ Len(res.r.val.root) = 1
                    /\ TextIs(res.r.val.root[1].name, OnlyEntry.name)
                    /\ res.r.val.root[1].value.kind = T_String
                    /\ TextIs(res.r.val.root[1].value.val, OnlyEntry.v))

\* the reference file has been written and parsed
C2_Witness ==
    /\ BuiltOne("string")
    /\ output = HelloFile
    /\ res.fn = "parse"
    /\ ~IsErr(res.r)

(***************************************************************************)
(* C7.  long_array(data) writes the kind byte 12, the name, len(data) as   *)
(* u32 and 8 bytes for each element, and parses back as a LongArray with   *)
(* the same elements in the same order.                                    *)
(***************************************************************************)
C7_LongArray ==
    BuiltOne("long_array") =>
        LET N == FileBytes(docs[1].name)
            F == FileBytes(OnlyEntry.name)
            v == OnlyEntry.v
        IN  /\ Len(output) = 3 + Len(N) + 3 + Len(F) + 4 + 8 * Len(v) + 1
            /\ output[3 + Len(N) + 1] = 12
            /\ SubSeq(output, 3 + Len(N) + 3 + Len(F) + 1, 3 + Len(N) + 3 + Len(F) + 4)
                    = <<0, 0, 0, Len(v)>>
            /\ (res.fn = "parse" =>
                    /\ ~IsErr(res.r)
                    /\ Len(res.r.val.root) = 1
                    /\ res.r.val.root[1].value.kind = T_LongArray
                    /\ ArrayIs(res.r.val.root[1].value.val, 8, v))

\* parse accepts the buffer b and ends at its last byte: b is one document
Exact(b) ==
    LET r == Document_parse(b)
    IN  ~IsErr(r) /\ r.rd.position = Len(b)

\* b is a with a nonzero suffix removed
ProperPrefix(b, a) == Len(b) < Len(a) /\ b = SubSeq(a, 1, Len(b))

(***************************************************************************)
(* C3.  Truncation: a buffer that is one valid document, with any nonzero  *)
(* suffix removed (down to the empty buffer), fails to parse with EOF: not *)
(* success, not another error.                                             *)
(***************************************************************************)
C3_Truncation ==
    res.fn = "parse" /\ ProperPrefix(data, orig) /\ Exact(orig)
        => res.r.err = EOF

\* a document cut in the middle of a later entry has been parsed
C3_Witness ==
    /\ res.fn = "parse"
    /\ ProperPrefix(data, orig)
    /\ Exact(orig)
    /\ Len(data) >= 10
    /\ Len(res.r.rd.types) >= 3
    /\ res.r.err = EOF

(***************************************************************************)
(* C4.  Unknown tag: when the byte at a type position the parse reaches    *)
(* (root kind, compound entry kind, list element kind) is outside 0..12,   *)
(* parse fails with UnknownTag carrying that byte and its offset in the    *)
(* buffer.                                                                 *)
(***************************************************************************)
C4_UnknownTag ==
    res.fn = "parse" =>
        \A i \in DOMAIN res.r.rd.types :
            LET offset == res.r.rd.types[i]
            IN  data[offset + 1] > 12
                    => res.r.err = UnknownTag(data[offset + 1], offset)

\* an unknown kind byte met after the root's header
C4_Witness ==
    /\ res.fn = "parse"
    /\ res.r.err.e = "UnknownTag"
    /\ res.r.err.offset > 3
    /\ data[res.r.err.offset + 1] = 255
    /\ res.r.err.tag = 255

CountBytes(p) == SubSeq(data, p + 2, p + 5)

\* List::read was called where an End element kind and a whole count follow
EndKindList ==
    /\ res.fn = "List::read"
    /\ res.at + 5 <= Len(data)
    /\ data[res.at + 1] = T_End

(***************************************************************************)
(* C6.  Zero-count empty list: a List payload whose element kind is End    *)
(* and whose count is 0 decodes to an empty Byte-kind list; with any count *)
(* above 0 it fails with UnexpectedEndTag.                                 *)
(***************************************************************************)
C6_EndKindList ==
    EndKindList =>
        IF CountBytes(res.at) = <<0, 0, 0, 0>>
        THEN /\ ~IsErr(res.r)
             /\ res.r.val = [lkind |-> T_Byte, items |-> <<>>]
             /\ res.r.rd.position = res.at + 5
        ELSE res.r.err = UnexpectedEndTag

\* an empty End-kind list has been read from an unaltered file
C6_Witness ==
    /\ EndKindList
    /\ CountBytes(res.at) = <<0, 0, 0, 0>>
    /\ ~IsErr(res.r)
    /\ res.r.val.lkind = T_Byte

(***************************************************************************)
(* The builders' life cycles, read off a step.                             *)
(***************************************************************************)
DropCompoundMsg == "finish() must be called on CompoundWriter before it goes out of scope."

DropListMsg == "finish() must be called on CompoundListWriter before going out of scope"

UsedOnceMsg == "TagWriter can only be used once"

\* this step, the innermost builder, of the given type, leaves its scope
\* and no finish() of it has run
Dropped(type) ==
    /\ stack # <<>>
    /\ Top.type = type
    /\ stack' = Pop(stack)
    /\ used' = used
    /\ lists' = lists

\* this step a CompoundWriter's finish() ran
CompoundFinished == used'.closed = used.closed + 1

\* this step the finish() of list l ran
ListFinished(l) == ~lists[l].done /\ lists'[l].done

\* the compounds there are builders for
OpenCompounds == {i \in DOMAIN stack : stack[i].type = "compound"}

\* the list l has a builder
HasBuilder(l) == \E i \in DOMAIN stack : stack[i].type = "list" /\ stack[i].lid = l

\* the count of list l as the buffer holds it
CountInOutput(l) ==
    SubSeq(output, lists[l].start_offset + 1, lists[l].start_offset + 4)

\* while nothing has panicked: a compound that is opened and not closed has
\* its builder, and so has a list whose count is not written; the count of
\* a finished list is the number of its elements
NothingLeftOpen ==
    panic = NoPanic =>
        /\ used.opened - used.closed = Cardinality(OpenCompounds)
        /\ \A l \in DOMAIN lists :
                IF lists[l].done
                THEN CountInOutput(l) = <<0, 0, 0, lists[l].length>>
                ELSE HasBuilder(l)
        /\ returned => /\ used.opened = used.closed
                       /\ output[Len(output)] = T_End
                       /\ \A l \in DOMAIN lists : lists[l].done

\* a builder dropped open panics, a finish() does not
DropOpenPanics ==
    /\ Dropped("compound") => panic' = DropCompoundMsg
    /\ Dropped("list") => panic' = DropListMsg
    /\ CompoundFinished => panic' = NoPanic
    /\ \A l \in DOMAIN lists : ListFinished(l) => panic' = NoPanic

(***************************************************************************)
(* C8.  A CompoundWriter or CompoundListWriter that goes out of scope      *)
(* without finish() panics, a finished one does not; so as long as nothing *)
(* has panicked no compound is left without its End byte and no compound   *)
(* list with its placeholder count.                                        *)
(***************************************************************************)
C8_FinishOrPanic == []NothingLeftOpen /\ [][DropOpenPanics]_vars

\* a compound inside a list was dropped open
C8_Witness ==
    /\ panic = DropCompoundMsg
    /\ Len(stack) >= 2
    /\ Top.type = "list"
    /\ used.opened = used.closed + 2

\* this step some value method is called on the innermost builder
ValueCall ==
    \/ \E m \in Methods : \E v \in Vals(m) : TagWriter_value(m, v)
    \/ TagWriter_compound
    \/ TagWriter_compound_list

\* on a TagWriter that has written its value, every value method would
\* panic in header with the buffer as it was
AllRefuse(self) ==
    /\ \A m \in Methods : \A v \in Vals(m) :
            LET r == Call(m, self, output, v)
            IN  r.panic /\ r.out = output
    /\ \A tag \in {T_Compound, T_List} :
            LET h == header(self, output, tag)
            IN  h.panic /\ h.out = output

(***************************************************************************)
(* C9.  Write-once field: every value method called on a TagWriter that    *)
(* has written a value panics with 'TagWriter can only be used once', and  *)
(* the buffer is the same after the call as before it.                     *)
(***************************************************************************)
C9_WriteOnce ==
    [][stack # <<>> /\ Top.type = "tag" /\ Top.done /\ ~Top.lent
        => /\ AllRefuse(Top)
           /\ ValueCall => panic' = UsedOnceMsg /\ output' = output]_vars

\* a second write was refused, the first value in the buffer
C9_Witness ==
    /\ panic = UsedOnceMsg
    /\ stack # <<>>
    /\ Top.type = "tag"
    /\ Top.done
    /\ Len(output) > 3

\* Open to Finished only by the builder's own value write or finish(), and
\* never back
TwoStates ==
    /\ \A i \in DOMAIN stack \cap DOMAIN stack' :
            /\ stack[i].done => stack'[i].done
            /\ ~stack[i].done /\ stack'[i].done
                   => /\ i = Len(stack)
                      /\ stack[i].type = "tag"
                      /\ Len(output') > Len(output)
    /\ \A l \in DOMAIN lists :
            /\ lists[l].done => lists'[l].done
            /\ ListFinished(l) => Top.type = "list" /\ Top.lid = l
    /\ CompoundFinished => Top.type = "compound" /\ output' = Append(output, T_End)

(***************************************************************************)
(* C10, as stated.  The three builders share the machine {Open, Finished}: *)
(* Open to Finished only by the builder's own finish or value write,       *)
(* nothing leaves Finished, and for each of the three kinds the end of     *)
(* scope while Open is fatal, a TagWriter dropped without a value too.     *)
(***************************************************************************)
C10_Original ==
    [][/\ TwoStates
       /\ \A type \in {"tag", "compound", "list"} :
              Dropped(type) /\ ~Top.done => panic' # NoPanic]_vars

(***************************************************************************)
(* C10, amended.  Open to Finished only by the builder's own finish or     *)
(* value write, nothing leaves Finished; the end of scope while Open is    *)
(* fatal for a CompoundWriter and a CompoundListWriter, and for a          *)
(* TagWriter it is silent: no panic, nothing written.                      *)
(***************************************************************************)
C10_BuilderStates ==
    [][/\ TwoStates
       /\ \A type \in {"compound", "list"} :
              Dropped(type) /\ ~Top.done => panic' # NoPanic
       /\ Dropped("tag") /\ ~Top.done
              => panic' = NoPanic /\ output' = output]_vars

\* a field was asked for and its TagWriter is gone with nothing written
C10_Witness ==
    /\ panic = NoPanic
    /\ Len(stack) = 1
    /\ used.fields > 0
    /\ used.nested = 0
    /\ Top.built = <<>>
    /\ Len(output) = 3 + Len(to_java_cesu8(Top.name))

FinishMsg == "NbtWriter::finish"

(***************************************************************************)
(* C11.  NbtWriter.finish() returns the accumulated buffer if root() has   *)
(* been called on the writer, and panics, returning nothing, if root() was *)
(* never called.                                                           *)
(***************************************************************************)
C11_FinishNeedsRoot ==
    [][NbtWriter_finish =>
            IF used.roots > 0
            THEN returned' /\ panic' = NoPanic /\ output' = output
            ELSE ~returned' /\ panic' = FinishMsg]_vars

\* finish() was called on a writer that never had a root
C11_Witness ==
    /\ panic = FinishMsg
    /\ ~returned
    /\ used.roots = 0
    /\ output = <<>>

RECURSIVE ListsMatch(_, _)

\* the names of the entries of a built compound / of a decoded compound
BuiltNames(bs) == [i \in DOMAIN bs |-> bs[i].name]

DecodedNames(ds) == [i \in DOMAIN ds |-> from_java_cesu8(ds[i].name).text]

\* every compound list built in the entries bs, at any depth, is decoded in
\* ds as a List::Compound with as many elements as element() was called,
\* the elements in call order (told apart by the names of their entries)
ListsMatch(bs, ds) ==
    /\ DecodedNames(ds) = BuiltNames(bs)
    /\ \A i \in DOMAIN bs :
          CASE bs[i].m = "compound" ->
                    /\ ds[i].value.kind = T_Compound
                    /\ ListsMatch(bs[i].v, ds[i].value.val)
            [] bs[i].m = "compound_list" ->
                    /\ ds[i].value.kind = T_List
                    /\ ds[i].value.val.lkind = T_Compound
                    /\ Len(ds[i].value.val.items) = Len(bs[i].v)
                    /\ \A k \in DOMAIN bs[i].v :
                            ListsMatch(bs[i].v[k], ds[i].value.val.items[k])
            [] OTHER -> TRUE

\* the element kind and the count of every list made, as the buffer holds
\* them: a zero placeholder until finish(), the number of element() calls
\* after it
CountsWritten ==
    \A l \in DOMAIN lists :
        /\ output[lists[l].start_offset] = T_Compound
        /\ CountInOutput(l) = IF lists[l].done
                              THEN <<0, 0, 0, lists[l].length>>
                              ELSE <<0, 0, 0, 0>>

\* a compound list was built in the one document of the buffer
BuiltList == Decoded /\ lists # <<>>

(***************************************************************************)
(* C12.  Compound-list count backpatch: a new CompoundListWriter writes    *)
(* the Compound element kind and four zero bytes; after finish() those     *)
(* four bytes are the big-endian number of element() calls, so that parse  *)
(* yields a List::Compound of that length, the elements in call order.     *)
(***************************************************************************)
C12_Backpatch ==
    /\ panic = NoPanic => CountsWritten
    /\ BuiltList => ~IsErr(res.r) /\ ListsMatch(docs[1].entries, res.r.val.root)

\* the fields of a builder, without the history of what was built in it
Core(f) ==
    [type |-> f.type, done |-> f.done, named |-> f.named, name |-> f.name,
     start_offset |-> f.start_offset, length |-> f.length, lid |-> f.lid,
     role |-> f.role, lent |-> f.lent]

\* builder c was made by a method of builder p, which it borrows the writer from
MadeBy(c, p) ==
    CASE c.type = "tag" -> p.type = "compound" /\ c.role = "field"
      [] c.type = "compound" ->
            \/ p.type = "compound" /\ c.role = "field"
            \/ p.type = "list" /\ c.role = "element"
            \/ p.type = "tag" /\ p.lent /\ p.done /\ c.role = "field"
      [] c.type = "list" ->
            \/ p.type = "compound"
            \/ p.type = "tag" /\ p.lent /\ p.done

\* the live builders form one chain: the root's CompoundWriter, then each
\* builder made by the one before it; the placeholders of the lists in the
\* chain lie in the buffer in the order of the chain
OneChain ==
    /\ stack # <<>> => stack[1].type = "compound" /\ stack[1].role = "root"
    /\ \A i \in 2..Len(stack) : MadeBy(stack[i], stack[i - 1])
    /\ \A i, j \in DOMAIN stack :
            i < j /\ stack[i].type = "list" /\ stack[j].type = "list"
                => stack[i].start_offset + 4 <= stack[j].start_offset
    /\ \A i \in DOMAIN stack :
            stack[i].type = "list" => stack[i].start_offset + 4 <= Len(output)

\* this step no builder but the innermost one is used or changed
OuterUntouched ==
    \A i \in 1..(Len(stack) - 1) :
        i \in DOMAIN stack' /\ Core(stack'[i]) = Core(stack[i])

\* this step the buffer is appended to, or stays as long as it is and
\* differs in the count of the innermost builder, a list, at most
WriteAtEnd ==
    \/ /\ Len(output') >= Len(output)
       /\ SubSeq(output', 1, Len(output)) = output
    \/ /\ stack # <<>>
       /\ Top.type = "list"
       /\ Len(output') = Len(output)
       /\ \A k \in DOMAIN output :
              output'[k] # output[k]
                  => k > Top.start_offset /\ k <= Top.start_offset + 4

\* this step the sink itself writes (root()) only while no builder is alive
SinkIdle ==
    stack # <<>> /\ stack' # <<>> => Core(stack'[1]) = Core(stack[1])

(***************************************************************************)
(* C13.  Exclusive write capability: only the innermost open builder       *)
(* appends to the buffer; from the opening of a nested builder until it    *)
(* finishes no builder further out (compound, list, field builder, sink)   *)
(* writes, so the bytes of a nested scope are contiguous.                  *)
(***************************************************************************)
C13_ExclusiveWrite ==
    []OneChain /\ [][OuterUntouched /\ WriteAtEnd /\ SinkIdle]_vars

\* a field is being written in an element of a list in the root: four
\* builders are alive, and only the TagWriter has written last
C13_Witness ==
    /\ Len(stack) = 4
    /\ stack[2].type = "list"
    /\ stack[3].type = "compound"
    /\ Top.type = "tag"
    /\ Top.done
    /\ panic = NoPanic

\* no CompoundWriter or CompoundListWriter is alive or was left open
AllClosed ==
    /\ stack = <<>>
    /\ panic = NoPanic
    /\ used.roots >= 1
    /\ used.opened = used.closed
    /\ \A l \in DOMAIN lists : lists[l].done

(***************************************************************************)
(* C14, as stated.  NbtWriter.finish() yields the buffer only after the    *)
(* root CompoundWriter and every builder nested inside it has reached      *)
(* Finished, every TagWriter among them.                                   *)
(***************************************************************************)
C14_Original == returned => AllClosed /\ used.written = used.fields

(***************************************************************************)
(* C14, amended.  NbtWriter.finish() yields the buffer only when no        *)
(* builder is alive, and after the root CompoundWriter and every           *)
(* CompoundWriter and CompoundListWriter nested inside it has reached      *)
(* Finished; a TagWriter may have gone out of scope without a value.       *)
(***************************************************************************)
C14_FinishAfterBuilders == returned => AllClosed

\* the buffer was handed out after a list and its element were finished and
\* a TagWriter was dropped unwritten
C14_Witness ==
    /\ returned
    /\ AllClosed
    /\ used.written < used.fields
    /\ lists # <<>>
    /\ used.elems > 0

\* the names of the root's entries in each file of Seeds, read off the file
SeedNames ==
    << <<>>,
       <<NameText>>,
       << <<98>>, <<>>, <<98>> >>,
       << <<108>>, <<>>, <<>> >>,
       << <<>>, <<>>, <<>>, <<>> >>,
       << <<101>>, <<>>, <<>> >>,
       << <<>> >>,
       << <<99>>, <<99>>, <<99>> >>,
       << <<>>, <<>>, <<>>, <<>>, <<>>, <<>>, <<>> >> >>

\* the indexes of the entries whose name decodes to the text key
Hits(entries, key) ==
    {i \in DOMAIN entries : from_java_cesu8(entries[i].name) = [ok |-> TRUE, text |-> key]}

(***************************************************************************)
(* C15.  A decoded Compound holds its entries in file order and keeps      *)
(* every entry when names repeat (len() counts duplicates);                *)
(* find_first_key(k) returns the entry of lowest index whose name equals   *)
(* k, and None when no entry's name equals k.                              *)
(***************************************************************************)
C15_FirstKey ==
    res.fn = "find_first_key" =>
        LET root == res.r.root
            hits == Hits(root, res.r.key)
        IN  /\ muts = 0 =>
                \A s \in DOMAIN Seeds :
                    data = Seeds[s] =>
                        /\ [i \in DOMAIN root |-> root[i].name] = SeedNames[s]
                        /\ res.r.len = Len(SeedNames[s])
            /\ res.r.len = Len(root)
            /\ IF hits = {}
               THEN ~res.r.found.some
               ELSE /\ res.r.found.some
                    /\ res.r.found.index \in hits
                    /\ \A h \in hits : res.r.found.index <= h
                    /\ res.r.found.entry = root[res.r.found.index]

\* a name that occurs three times was looked up, and the first entry (a
\* list) was returned
C15_Witness ==
    /\ res.fn = "find_first_key"
    /\ res.r.len = 3
    /\ Cardinality(Hits(res.r.root, res.r.key)) = 3
    /\ res.r.found.some
    /\ res.r.found.index = 1
    /\ res.r.found.entry.value.kind = T_List

\* the two's complement value of at most four bytes, most significant first
Signed(bs) ==
    LET top == IF bs[1] >= 128 THEN bs[1] - 256 ELSE bs[1]
    IN  CASE Len(bs) = 2 -> top * 256 + bs[2]
          [] Len(bs) = 4 -> top * 16777216 + bs[2] * 65536 + bs[3] * 256 + bs[4]

\* the value of the s bytes at offset o of the file, as the model holds it
ValueAt(o, s) ==
    IF s = 8
    THEN <<Signed(SubSeq(data, o + 1, o + 4)), Signed(SubSeq(data, o + 5, o + 8))>>
    ELSE Signed(SubSeq(data, o + 1, o + s))

\* the header count of the array read at offset p (counts below 2^16 only)
CountAt(p) == data[p + 3] * 256 + data[p + 4]

\* an array was read whole
ArrayRead == res.fn = "NbtArray::read" /\ ~IsErr(res.r)

(***************************************************************************)
(* C16.  Array view access: for an array decoded with header count c and   *)
(* stride s, len() = c; get(i) for i < c is the big-endian value of bytes  *)
(* [i*s, i*s+s) of the payload; get(i) for i >= c is None; iterating       *)
(* yields get(0) .. get(c-1) in order.                                     *)
(***************************************************************************)
C16_ArrayView ==
    ArrayRead =>
        LET c == CountAt(res.at)
            s == res.r.val.size
        IN  /\ res.r.len = c
            /\ \A i \in 0..(c - 1) :
                    res.r.get[i] = [some |-> TRUE, v |-> ValueAt(res.at + 4 + i * s, s)]
            /\ \A i \in c..(c + 1) : ~res.r.get[i].some
            /\ res.r.iterated = [i \in 1..c |-> res.r.get[i - 1].v]
            /\ res.r.vec = res.r.iterated

\* an array of two 16-bit values was read, the second of them negative
C16_Witness ==
    /\ ArrayRead
    /\ res.r.val.size = 2
    /\ res.r.len = 2
    /\ res.r.get[1].v < 0
    /\ Len(res.r.iterated) = 2
    /\ ~res.r.get[2].some

(***************************************************************************)
(* C17.  Text and structure.                                               *)
(***************************************************************************)
RECURSIVE ShapeTag(_)
RECURSIVE ShapeList(_)
RECURSIVE ShapeEntries(_)

\* a tree with every text replaced by its length in bytes
ShapeTag(t) ==
    CASE t.kind = T_String -> [kind |-> t.kind, val |-> Len(t.val)]
      [] t.kind = T_List -> [kind |-> t.kind, val |-> ShapeList(t.val)]
      [] t.kind = T_Compound -> [kind |-> t.kind, val |-> ShapeEntries(t.val)]
      [] OTHER -> t

ShapeList(l) ==
    [lkind |-> l.lkind,
     items |-> CASE l.lkind = T_String -> [i \in DOMAIN l.items |-> Len(l.items[i])]
                 [] l.lkind = T_List -> [i \in DOMAIN l.items |-> ShapeList(l.items[i])]
                 [] l.lkind = T_Compound ->
                        [i \in DOMAIN l.items |-> ShapeEntries(l.items[i])]
                 [] OTHER -> l.items]

ShapeEntries(es) ==
    [i \in DOMAIN es |-> [name |-> Len(es[i].name), value |-> ShapeTag(es[i].value)]]

ShapeDoc(d) == [name |-> Len(d.name), root |-> ShapeEntries(d.root)]

\* the 1-based indexes at which the buffer differs from the one it was made of
Differ == {i \in DOMAIN data : i \in DOMAIN orig /\ data[i] # orig[i]}

\* the buffer parsed is the earlier one with bytes of its texts changed only
TextChanged ==
    /\ res.fn = "parse"
    /\ Len(data) = Len(orig)
    /\ Differ # {}
    /\ Differ \subseteq Document_parse(orig).rd.texts

\* C17: Document::parse never fails with a text decoding error; a buffer
\* that differs from another in bytes of its texts only has the same parse
\* outcome (the same error at the same offset, or the same tree with every
\* text replaced by its length); a text that does not decode is found by
\* NbtString::decode alone.
C17_TextIndependent ==
    /\ res.fn = "parse" => res.r.err # Cesu8DecodingError
    /\ TextChanged =>
            LET o == Document_parse(orig)
            IN  /\ res.r.err = o.err
                /\ res.r.rd = o.rd
                /\ ~IsErr(o) => ShapeDoc(res.r.val) = ShapeDoc(o.val)

C17_Witness ==
    /\ TextChanged
    /\ ~IsErr(res.r)
    /\ \E i \in DOMAIN res.r.val.root :
            /\ res.r.val.root[i].value.kind = T_String
            /\ ~NbtString_decode(res.r.val.root[i].value.val).ok
            /\ NbtString_decode(Document_parse(orig).val.root[i].value.val).ok

(***************************************************************************)
(* C18.  A parse returns the whole document or one error.                  *)
(***************************************************************************)
RECURSIVE SizeTag(_)
RECURSIVE SizeList(_)
RECURSIVE SizeEntries(_, _)
RECURSIVE SizeItems(_, _, _)

\* the number of bytes the payload of a tag was read from
SizeTag(t) ==
    CASE t.kind = T_Byte -> 1
      [] t.kind = T_Short -> 2
      [] t.kind \in {T_Int, T_Float} -> 4
      [] t.kind \in {T_Long, T_Double} -> 8
      [] t.kind = T_ByteArray -> 4 + Len(t.val)
      [] t.kind = T_String -> 2 + Len(t.val)
      [] t.kind = T_List -> SizeList(t.val)
      [] t.kind = T_Compound -> SizeEntries(t.val, 1)
      [] t.kind \in {T_IntArray, T_LongArray} -> 4 + Len(t.val.data)

\* a list: kind, count, items
SizeList(l) ==
    5 + (CASE l.lkind = T_Byte -> Len(l.items)
           [] l.lkind \in {T_Short, T_Int, T_Long, T_Float, T_Double} -> Len(l.items.data)
           [] OTHER -> SizeItems(l.lkind, l.items, 1))

SizeItems(kind, items, i) ==
    IF i > Len(items) THEN 0
    ELSE SizeItems(kind, items, i + 1)
         + (CASE kind = T_ByteArray -> 4 + Len(items[i])
              [] kind = T_String -> 2 + Len(items[i])
              [] kind = T_List -> SizeList(items[i])
              [] kind = T_Compound -> SizeEntries(items[i], 1)
              [] kind \in {T_IntArray, T_LongArray} -> 4 + Len(items[i].data))

\* a compound from its entry i on: kind, name and payload of each, then End
SizeEntries(es, i) ==
    IF i > Len(es) THEN 1
    ELSE 3 + Len(es[i].name) + SizeTag(es[i].value) + SizeEntries(es, i + 1)

SizeDoc(d) == 3 + Len(d.name) + SizeEntries(d.root, 1)

ParseErrors == {"EOF", "UnknownTag", "UnexpectedEndTag", "IncorrectStartTag"}

\* the bytes a byte after the reader is replaced by
LaterBytes == {0, 255}

\* a change of any byte after the reader's position leaves the result as it is
LaterBytesUnread ==
    \A j \in (res.r.rd.position + 1)..Len(data) : \A b \in LaterBytes :
        Document_parse([data EXCEPT ![j] = b]) = res.r

\* C18: Document::parse returns the (name, root) pair read from exactly the
\* bytes before the reader, or one ParseError and no value; the error is
\* decided by the bytes before the reader alone, whatever follows them.
C18_AllOrNothing ==
    res.fn = "parse" =>
        IF IsErr(res.r)
        THEN /\ res.r.err.e \in ParseErrors
             /\ res.r.val = <<>>
             /\ res.r.rd.position <= Len(data)
             /\ LaterBytesUnread
        ELSE /\ DOMAIN res.r.val = {"name", "root"}
             /\ SizeDoc(res.r.val) = res.r.rd.position
             /\ LaterBytesUnread

\* a parse that fails after it has read four kind bytes or more, so with
\* entries or items already read, and with bytes left after the reader
C18_Witness ==
    /\ res.fn = "parse"
    /\ IsErr(res.r)
    /\ res.r.val = <<>>
    /\ Len(res.r.rd.types) >= 4
    /\ res.r.rd.position < Len(data)

(***************************************************************************)
(* The string writers on long texts.  A text is a char (or byte) repeated; *)
(* of what is written the state keeps the 2-byte length and the number of  *)
(* bytes after it: res.r is [c, n, skip, prefix, count].                   *)
(***************************************************************************)
\* the char (or byte) c, n times
Rep(c, n) == [i \in 1..n |-> c]

\* chars of 1, 2, 2 and 6 bytes
StrChars == {97, 233, 0, 128512}

StrBytes == {97, 233, 0, 192}

StrLens == 0..9 \cup {32768, 65536}

\* the String written at the end of out, after skip bytes of header
Written(c, n, skip, out) ==
    [c |-> c, n |-> n, skip |-> skip,
     prefix |-> SubSeq(out, skip + 1, skip + 2), count |-> Len(out) - skip - 2]

StrInit ==
    /\ output = <<>>
    /\ done = FALSE
    /\ stack = <<>>
    /\ panic = NoPanic
    /\ returned = FALSE
    /\ docs = <<>>
    /\ lists = <<>>
    /\ used = [roots |-> 0, fields |-> 0, nested |-> 0, elems |-> 0,
               opened |-> 0, closed |-> 0, written |-> 0]
    /\ limits = Flat
    /\ data = <<>>
    /\ res = NoRes
    /\ orig = <<>>
    /\ muts = 0

\* NbtWriter::write_string, as root() and header() call it for a name
WriteString(c, n) ==
    /\ res.fn = "none"
    /\ res' = [fn |-> "write_string", at |-> 0,
               r |-> Written(c, n, 0, write_string(<<>>, Rep(c, n)))]
    /\ UNCHANGED <<data, orig, muts>>
    /\ UNCHANGED encvars

\* TagWriter::string on the TagWriter of field("name")
TagWriterString(c, n) ==
    /\ res.fn = "none"
    /\ res' = [fn |-> "string", at |-> 0,
               r |-> Written(c, n, 7, string(new_field(NameText), <<>>, Rep(c, n)).out)]
    /\ UNCHANGED <<data, orig, muts>>
    /\ UNCHANGED encvars

\* TagWriter::raw_string on the TagWriter of field("name")
TagWriterRawString(b, n) ==
    /\ res.fn = "none"
    /\ res' = [fn |-> "raw_string", at |-> 0,
               r |-> Written(b, n, 7, raw_string(new_field(NameText), <<>>, Rep(b, n)).out)]
    /\ UNCHANGED <<data, orig, muts>>
    /\ UNCHANGED encvars

StrNext ==
    \/ \E c \in StrChars : \E n \in StrLens : WriteString(c, n)
    \/ \E c \in StrChars : \E n \in StrLens : TagWriterString(c, n)
    \/ \E b \in StrBytes : \E n \in StrLens : TagWriterRawString(b, n)

StrSpec == StrInit /\ [][StrNext]_vars

(***************************************************************************)
(* C19.  The length prefix of a string.                                    *)
(***************************************************************************)
StrFns == {"write_string", "string", "raw_string"}

\* C19: the 2-byte big-endian length written before the bytes of a string is
\* the number of bytes written after it, for a name (write_string) and for
\* the text of string() and raw_string(), whatever the length of the input.
C19_LengthPrefix ==
    res.fn \in StrFns => read_u16(res.r.prefix) = res.r.count

\* the same holds of the texts of less than 65536 bytes, and the length
\* written is the low 16 bits of the number of bytes in every case
C19_LowBits ==
    res.fn \in StrFns =>
        /\ read_u16(res.r.prefix) = res.r.count % 65536
        /\ res.r.count < 65536 => read_u16(res.r.prefix) = res.r.count

\* raw_string has written 65536 bytes after the length 0
C19_Wrapped ==
    /\ res.fn = "raw_string"
    /\ res.r.count = 65536
    /\ res.r.prefix = <<0, 0>>

(***************************************************************************)
(* The primitive codecs: a field of one primitive written by TagWriter and *)
(* read back by Tag::read, and a Byte list read back by List::get.         *)
(* res.r is [v, kind, read] or [v, list, got].                             *)
(***************************************************************************)
\* Option<Tag>
NoTag == [some |-> FALSE, v |-> 0]

SomeTag(kind, val) == [some |-> TRUE, v |-> [kind |-> kind, val |-> val]]

\* List::get; the items of a list of Byte are the bytes, of a list of
\* Short..Double an NbtArray, of any other kind a Vec
List_get(self, index) ==
    CASE self.lkind = T_Byte ->
            IF index < Len(self.items)
            THEN SomeTag(T_Byte, as_i8(self.items[index + 1]))
            ELSE NoTag
      [] self.lkind \in {T_Short, T_Int, T_Long, T_Float, T_Double} ->
            LET g == NbtArray_get(self.items, index)
            IN  IF g.some THEN SomeTag(self.lkind, g.v) ELSE NoTag
      [] OTHER ->
            IF index < Len(self.items)
            THEN SomeTag(self.lkind, self.items[index + 1])
            ELSE NoTag

I8 == (-128)..127

\* the powers of two, the numbers next to them, and the ends of i16
I16 ==
    {s * (2 ^ k) + d : s \in {-1, 1}, k \in 0..14, d \in {-1, 0, 1}}
    \cup {32767, -32768}

\* the same of i32
I32 ==
    {s * (2 ^ k) + d : s \in {-1, 1}, k \in 0..30, d \in {-1, 0}}
    \cup {2147483647, -2147483647, (-2147483647) - 1}

\* an i64 is written <<high word, low word>>, each as an i32
I64 ==
    {<<h, l>> : h \in {(-2147483647) - 1, -1, 0, 1, 255, 2147483647},
                l \in {(-2147483647) - 1, -256, -1, 0, 1, 128, 65536, 2147483647}}

PrimKinds == {T_Byte, T_Short, T_Int, T_Long}

PrimVals(kind) ==
    CASE kind = T_Byte -> I8
      [] kind = T_Short -> I16
      [] kind = T_Int -> I32
      [] kind = T_Long -> I64

PrimWrite(kind, self, out, v) ==
    CASE kind = T_Byte -> byte(self, out, v)
      [] kind = T_Short -> short(self, out, v)
      [] kind = T_Int -> int(self, out, v)
      [] kind = T_Long -> long(self, out, v)

\* the arguments of byte_list: every single byte, and pairs
ByteLists == {<<b>> : b \in 0..255} \cup {<<b, c>> : b, c \in {0, 127, 128, 255}}

\* the offset of the payload of a field called ""
AfterHeader == [Reader_new EXCEPT !.position = 3]

PrimInit == StrInit

\* field("").byte(v), short(v), int(v) or long(v), then the entry read as
\* Compound::read reads it: the kind, the name, Tag::read
WritePrimitive(kind, v) ==
    /\ res.fn = "none"
    /\ data = <<>>
    /\ LET out == PrimWrite(kind, new_field(<<>>), <<>>, v).out
           t == read_type(out, Reader_new)
           name == NbtString_read(out, t.rd)
       IN  /\ data' = out
           /\ res' = [fn |-> "Tag::read", at |-> name.rd.position,
                      r |-> [v |-> v, kind |-> t.val,
                             read |-> Tag_read(t.val, out, name.rd)]]
    /\ UNCHANGED <<orig, muts>>
    /\ UNCHANGED encvars

\* field("").byte_list(bs), then List::read and List::get at every index up
\* to the length
ReadByteList(bs) ==
    /\ res.fn = "none"
    /\ data = <<>>
    /\ LET out == byte_list(new_field(<<>>), <<>>, bs).out
           list == List_read(out, AfterHeader)
       IN  /\ data' = out
           /\ res' = [fn |-> "List::get", at |-> 3,
                      r |-> [v |-> bs, list |-> list,
                             got |-> [i \in 0..Len(bs) |-> List_get(list.val, i)]]]
    /\ UNCHANGED <<orig, muts>>
    /\ UNCHANGED encvars

PrimNext ==
    \/ \E kind \in PrimKinds : \E v \in PrimVals(kind) : WritePrimitive(kind, v)
    \/ \E bs \in ByteLists : ReadByteList(bs)

PrimSpec == PrimInit /\ [][PrimNext]_vars

(***************************************************************************)
(* C20.  The primitive codecs are inverse.                                 *)
(***************************************************************************)
\* the number of payload bytes of a primitive kind
PrimSize(kind) ==
    CASE kind = T_Byte -> 1 [] kind = T_Short -> 2 [] kind = T_Int -> 4 [] kind = T_Long -> 8

\* byte k (counted from the last, 0 to 3) of the two's complement of w
ByteOf(w, k) == (w \div (256 ^ k)) % 256

\* bs is v in big-endian order, in the number of bytes of its kind
BigEndian(kind, v, bs) ==
    /\ Len(bs) = PrimSize(kind)
    /\ IF kind = T_Long
       THEN /\ \A k \in 0..3 : bs[4 - k] = ByteOf(v[1], k)
            /\ \A k \in 0..3 : bs[8 - k] = ByteOf(v[2], k)
       ELSE \A k \in 0..(PrimSize(kind) - 1) : bs[PrimSize(kind) - k] = ByteOf(v, k)

\* C20: a Byte, Short, Int or Long v is written as 1, 2, 4 or 8 bytes in
\* big-endian order, and Tag::read of the same kind on those bytes returns
\* v; a byte b of a Byte list is returned by List::get as the i8 of the same
\* bits, b - 256 for 0x80..0xFF.
C20_PrimitiveInverse ==
    /\ res.fn = "Tag::read" =>
            /\ BigEndian(res.r.kind, res.r.v, SubSeq(data, 4, Len(data)))
            /\ ~IsErr(res.r.read)
            /\ res.r.read.val = [kind |-> res.r.kind, val |-> res.r.v]
            /\ res.r.read.rd.position = Len(data)
    /\ res.fn = "List::get" =>
            /\ ~IsErr(res.r.list)
            /\ \A i \in 0..(Len(res.r.v) - 1) :
                    LET b == res.r.v[i + 1]
                    IN  res.r.got[i] = SomeTag(T_Byte, IF b >= 128 THEN b - 256 ELSE b)
            /\ res.r.got[Len(res.r.v)] = NoTag

\* the Byte -128 has been written as 0x80 and read back
C20_Witness ==
    /\ res.fn = "Tag::read"
    /\ res.r.kind = T_Byte
    /\ data = <<T_Byte, 0, 0, 128>>
    /\ res.r.read.val.val = -128

\* the byte 0xFF of a Byte list has been returned by List::get as -1
C20_ListWitness ==
    /\ res.fn = "List::get"
    /\ res.r.v = <<128, 255>>
    /\ res.r.got[1] = SomeTag(T_Byte, -1)

(***************************************************************************)
(* The byte cursor alone: a Reader over a file, advanced again and again.  *)
(* res is [fn, at, r, n]: the position before the call, its result (with   *)
(* the reader after it) and its argument.                                  *)
(***************************************************************************)
MaxAdvances == 4

\* the arguments of advance: the sizes the decoder asks for, and a count
\* larger than any file
Advances == {0, 1, 2, 4, 8, Huge}

\* the reader as the last call left it
Cursor == IF res.fn = "advance" THEN res.r.rd ELSE Reader_new

Advance(n) ==
    /\ Cursor.advances < MaxAdvances
    /\ res' = [fn |-> "advance", at |-> Cursor.position,
               r |-> advance(data, Cursor, n), n |-> n]
    /\ UNCHANGED <<data, orig, muts>>
    /\ UNCHANGED encvars

AdvNext == \E n \in Advances : Advance(n)

AdvSpec == DecInit /\ [][AdvNext]_vars

(***************************************************************************)
(* C21.  The byte cursor.                                                  *)
(***************************************************************************)
\* what the last advance(n) at position p had to do
AdvanceDone ==
    LET p == res.at
        n == res.n
        r == res.r
    IN  IF p + n <= Len(data)
        THEN /\ ~IsErr(r)
             /\ Len(r.val) = n
             /\ \A i \in 1..n : r.val[i] = data[p + i]
             /\ r.rd.position = p + n
        ELSE /\ r.err = EOF
             /\ r.val = <<>>
             /\ r.rd.position = p

InBuffer == 0 <= Cursor.position /\ Cursor.position <= Len(data)

CursorRight == InBuffer /\ (res.fn = "advance" => AdvanceDone)

\* C21: advance(n) with n bytes or more left returns the n bytes from the
\* position on and adds n to the position; with fewer left it returns EOF
\* and leaves the position as it is.  The position is always between 0 and
\* the length of the buffer, and never decreases.
C21_Cursor ==
    /\ []CursorRight
    /\ [][res'.fn = "advance" =>
              /\ res'.at = Cursor.position
              /\ res'.r.rd.position >= Cursor.position]_vars

\* a call that fails in the middle of a file, after one that succeeded
C21_Witness ==
    /\ res.fn = "advance"
    /\ res.r.err = EOF
    /\ res.r.rd.advances >= 2
    /\ 0 < res.at
    /\ res.at < Len(data)
    /\ res.r.rd.position = res.at
(***************************************************************************)
(* C22.  Array views hold whole elements.                                  *)
(***************************************************************************)
RECURSIVE WholeTag(_)
RECURSIVE WholeList(_)
RECURSIVE WholeEntries(_)

\* a view of whole elements
Whole(a) == Len(a.data) % a.size = 0

\* every array view in a tree is of whole elements, of the stride of its kind
WholeTag(t) ==
    CASE t.kind = T_IntArray -> Whole(t.val) /\ t.val.size = 4
      [] t.kind = T_LongArray -> Whole(t.val) /\ t.val.size = 8
      [] t.kind = T_List -> WholeList(t.val)
      [] t.kind = T_Compound -> WholeEntries(t.val)
      [] OTHER -> TRUE

WholeList(l) ==
    CASE l.lkind = T_Short -> Whole(l.items) /\ l.items.size = 2
      [] l.lkind \in {T_Int, T_Float} -> Whole(l.items) /\ l.items.size = 4
      [] l.lkind \in {T_Long, T_Double} -> Whole(l.items) /\ l.items.size = 8
      [] l.lkind = T_IntArray ->
            \A i \in DOMAIN l.items : Whole(l.items[i]) /\ l.items[i].size = 4
      [] l.lkind = T_LongArray ->
            \A i \in DOMAIN l.items : Whole(l.items[i]) /\ l.items[i].size = 8
      [] l.lkind = T_List -> \A i \in DOMAIN l.items : WholeList(l.items[i])
      [] l.lkind = T_Compound -> \A i \in DOMAIN l.items : WholeEntries(l.items[i])
      [] OTHER -> TRUE

WholeEntries(es) == \A i \in DOMAIN es : WholeTag(es[i].value)

\* the bytes left after the 4-byte count of the array read at res.at
LeftAfterCount == Len(data) - (res.at + 4)

\* the count is there, and count elements of the given stride after it
Fits(stride) ==
    /\ LeftAfterCount >= 0
    /\ data[res.at + 1] = 0
    /\ data[res.at + 2] = 0
    /\ CountAt(res.at) * stride <= LeftAfterCount

\* the count is there and that many bytes after it, but not that many
\* elements of any stride: the last element would be cut
C22_Witness ==
    /\ res.fn = "NbtArray::read"
    /\ LeftAfterCount >= 0
    /\ data[res.at + 1] = 0
    /\ data[res.at + 2] = 0
    /\ CountAt(res.at) >= 2
    /\ CountAt(res.at) < LeftAfterCount
    /\ LeftAfterCount < CountAt(res.at) * 2
    /\ res.r.err = EOF

\* a list of two Shorts has been read whole
C22_ListRead ==
    /\ res.fn = "List::read"
    /\ ~IsErr(res.r)
    /\ res.r.val.lkind = T_Short
    /\ Len(res.r.val.items.data) = 4

\* C22: an array view read from a file is of count * stride bytes, a
\* multiple of its stride; when fewer bytes are left the read fails with EOF
\* and there is no view.  The same holds of every IntArray, LongArray and
\* list of Short, Int, Long, Float or Double inside a parsed document or a
\* list read on its own.
C22_WholeElements ==
    /\ res.fn = "NbtArray::read" =>
            IF IsErr(res.r)
            THEN res.r.err = EOF /\ res.r.val = <<>> /\ ~Fits(8)
            ELSE /\ Fits(res.r.val.size)
                 /\ Whole(res.r.val)
                 /\ Len(res.r.val.data) = CountAt(res.at) * res.r.val.size
                 /\ res.r.rd.position = res.at + 4 + CountAt(res.at) * res.r.val.size
    /\ res.fn = "parse" /\ ~IsErr(res.r) => WholeEntries(res.r.val.root)
    /\ res.fn = "List::read" /\ ~IsErr(res.r) => WholeList(res.r.val)

(***************************************************************************)
(* C23.  The variant and the length of a decoded list.                     *)
(***************************************************************************)
\* List::len
List_len(self) ==
    CASE self.lkind = T_Byte -> Len(self.items)
      [] self.lkind \in {T_Short, T_Int, T_Long, T_Float, T_Double} ->
            NbtArray_len(self.items)
      [] OTHER -> Len(self.items)

SequenceKinds == {T_ByteArray, T_String, T_List, T_Compound, T_IntArray, T_LongArray}

\* a list has been read whole by List::read at offset res.at
ListRead == res.fn = "List::read" /\ ~IsErr(res.r)

\* the element-kind byte of that list
KindAt == data[res.at + 1]

\* item i of a list of a sequence kind is what its decoder reads at the place
\* where item i - 1 ended
InFileOrder(l, end) ==
    \A i \in DOMAIN l.items :
        LET from == end - SizeItems(l.lkind, l.items, i)
            x == Element_read(l.lkind, data, [Reader_new EXCEPT !.position = from])
        IN  ~IsErr(x) /\ x.val = l.items[i]

\* C23: a list read whole has the variant of the element-kind byte read
\* (1..12) and as many items as the 4-byte big-endian count says; the items
\* of a list of Strings, ByteArrays, Compounds, Lists, IntArrays or
\* LongArrays are count decodes of that kind one after the other in the
\* file, and the lists inside a list of Lists have each the kind of their
\* own header.
C23_ListVariant ==
    ListRead =>
        LET l == res.r.val
        IN  /\ KindAt \in 1..12 => l.lkind = KindAt
            /\ data[res.at + 2] = 0 /\ data[res.at + 3] = 0
            /\ List_len(l) = CountAt(res.at + 1)
            /\ SizeList(l) = res.r.rd.position - res.at
            /\ l.lkind \in SequenceKinds =>
                    /\ Len(l.items) = CountAt(res.at + 1)
                    /\ InFileOrder(l, res.r.rd.position)

\* a list of three lists has been read, the first of Bytes and the third of
\* Strings
C23_Witness ==
    /\ ListRead
    /\ KindAt = T_List
    /\ List_len(res.r.val) = 3
    /\ res.r.val.items[1].lkind = T_Byte
    /\ res.r.val.items[3].lkind = T_String
    /\ List_len(res.r.val.items[3]) = 1

(***************************************************************************)
(* The decoders one at a time, at every offset of a file: Tag::read for    *)
(* every kind, Compound::read and List::read.  res is [fn, at, r] and, for *)
(* Tag::read, tag.                                                         *)
(***************************************************************************)
TagTypes == T_End..T_LongArray

ReadTagAt(tag, p) ==
    /\ res.fn = "none"
    /\ p <= Len(data)
    /\ res' = [fn |-> "Tag::read", at |-> p, tag |-> tag,
               r |-> Tag_read(tag, data, [Reader_new EXCEPT !.position = p])]
    /\ UNCHANGED <<data, orig, muts>>
    /\ UNCHANGED encvars

ReadCompoundAt(p) ==
    /\ res.fn = "none"
    /\ p <= Len(data)
    /\ res' = [fn |-> "Compound::read", at |-> p,
               r |-> Compound_read(data, [Reader_new EXCEPT !.position = p])]
    /\ UNCHANGED <<data, orig, muts>>
    /\ UNCHANGED encvars

TagNext ==
    \/ \E tag \in TagTypes : \E p \in 0..Len(data) : ReadTagAt(tag, p)
    \/ \E p \in 0..Len(data) : ReadCompoundAt(p)
    \/ \E p \in 0..Len(data) : ReadListAt(p)

TagSpec == DecInit /\ [][TagNext]_vars

(***************************************************************************)
(* C24.  The kind End.                                                     *)
(***************************************************************************)
\* the reader of res.r has not moved and has read nothing
Untouched ==
    res.r.rd = [Reader_new EXCEPT !.position = res.at]

\* the 4 bytes after the kind byte at res.at are there and are 0
ZeroCount ==
    /\ res.at + 5 <= Len(data)
    /\ \A i \in 2..5 : data[res.at + i] = 0

\* C24: Tag::read for the kind End fails with UnexpectedEndTag and reads
\* nothing; no value is ever read for the kind End.  A kind byte End is
\* taken in two places only: Compound::read ends on it, and List::read takes
\* it as the element kind when the count is 0.
C24_EndKind ==
    /\ res.fn = "Tag::read" /\ res.tag = T_End =>
            res.r.err = UnexpectedEndTag /\ res.r.val = <<>> /\ Untouched
    /\ res.fn = "Tag::read" /\ ~IsErr(res.r) =>
            res.tag # T_End /\ res.r.val.kind = res.tag
    /\ res.fn = "Compound::read" /\ res.at < Len(data) /\ data[res.at + 1] = T_End =>
            /\ ~IsErr(res.r)
            /\ res.r.val = <<>>
            /\ res.r.rd.position = res.at + 1
    /\ res.fn = "List::read" /\ res.at < Len(data) /\ data[res.at + 1] = T_End =>
            IF ZeroCount
            THEN ~IsErr(res.r) /\ List_len(res.r.val) = 0
            ELSE res.r.err \in {UnexpectedEndTag, EOF}

\* Tag::read for the kind End in the middle of a file
C24_Witness ==
    /\ res.fn = "Tag::read"
    /\ res.tag = T_End
    /\ 0 < res.at
    /\ res.at < Len(data)
    /\ res.r.err = UnexpectedEndTag
    /\ res.r.rd.position = res.at

(***************************************************************************)
(* C25.  compound_field(name) is field(name).compound(), and               *)
(* compound_list_field(name) is field(name).compound_list().               *)
(***************************************************************************)
RECURSIVE BytesOfEntries(_, _)
RECURSIVE BytesOfElements(_, _)
RECURSIVE BytesOfDocs(_, _)

\* the bytes of the entries of a compound as they were built, from entry i
\* on, whichever calls opened the compounds and lists among them
BytesOfEntries(es, i) ==
    IF i > Len(es) THEN <<>>
    ELSE LET e == es[i]
             head == IF e.m = "compound"
                     THEN write_string(<<T_Compound>>, e.name)
                          \o BytesOfEntries(e.v, 1) \o <<T_End>>
                     ELSE IF e.m = "compound_list"
                     THEN write_u32(write_string(<<T_List>>, e.name) \o <<T_Compound>>,
                                    Len(e.v))
                          \o BytesOfElements(e.v, 1)
                     ELSE Call(e.m, new_field(e.name), <<>>, e.v).out
         IN  head \o BytesOfEntries(es, i + 1)

BytesOfElements(els, i) ==
    IF i > Len(els) THEN <<>>
    ELSE BytesOfEntries(els[i], 1) \o <<T_End>> \o BytesOfElements(els, i + 1)

BytesOfDocs(ds, i) ==
    IF i > Len(ds) THEN <<>>
    ELSE write_string(<<T_Compound>>, ds[i].name) \o BytesOfEntries(ds[i].entries, 1)
         \o <<T_End>> \o BytesOfDocs(ds, i + 1)

\* the buffer handed out is the bytes of the documents built
SameDocument == returned => output = BytesOfDocs(docs, 1)

\* the builder a step has opened
Opened == stack'[Len(stack')]

\* compound_field(name) has written what header() of the TagWriter of
\* field(name) writes in compound(), and opened the builder compound() opens
CompoundFieldSame ==
    \A name \in FieldNames :
        CompoundWriter_compound_field(name) =>
            LET h == header(new_field(name), output, T_Compound)
            IN  /\ ~h.panic
                /\ output' = h.out
                /\ Opened = CompoundWriter_new("field", name)

ListFieldSame ==
    \A name \in FieldNames :
        CompoundWriter_compound_list_field(name) =>
            LET h == header(new_field(name), output, T_List)
                n == CompoundListWriter_new(h.out, name, Len(lists) + 1)
            IN  /\ ~h.panic
                /\ output' = n.out
                /\ Opened = n.self
                /\ output' = write_string(output \o <<T_List>>, name)
                             \o <<T_Compound, 0, 0, 0, 0>>

\* compound() and compound_list() on the TagWriter of field(name) have
\* written the kind, then the name, as compound_field(name) and
\* compound_list_field(name) do, and opened the same builder
TagWriterSame ==
    /\ TagWriter_compound /\ panic' = NoPanic =>
            /\ output' = write_string(write_tag(output, T_Compound), Top.name)
            /\ Opened = CompoundWriter_new("field", Top.name)
    /\ TagWriter_compound_list /\ panic' = NoPanic =>
            LET n == CompoundListWriter_new(
                        write_string(write_tag(output, T_List), Top.name),
                        Top.name, Len(lists) + 1)
            IN  output' = n.out /\ Opened = n.self

\* C25: compound_field(name) appends the bytes and opens the builder that
\* field(name).compound() does, and compound_list_field(name) those of
\* field(name).compound_list(): the List or Compound kind byte, the name,
\* and for a list the Compound element kind and a count of four 0 bytes.
\* The buffer finish() returns is a function of the documents built, not of
\* the calls that opened their compounds and lists.
C25_SameBytes ==
    /\ []SameDocument
    /\ [][CompoundFieldSame /\ ListFieldSame /\ TagWriterSame]_vars

\* a document whose only entry is a list of one compound, made by
\* field(name).compound_list()
C25_Witness ==
    /\ returned
    /\ Len(docs) = 1
    /\ Len(docs[1].entries) = 1
    /\ docs[1].entries[1].m = "compound_list"
    /\ Len(docs[1].entries[1].v) = 1
    /\ docs[1].entries[1].v[1] = <<>>
    /\ used.fields = 1
    /\ used.written = 1

\* the same document, made by compound_list_field(name)
C25_OtherForm ==
    /\ returned
    /\ Len(docs) = 1
    /\ Len(docs[1].entries) = 1
    /\ docs[1].entries[1].m = "compound_list"
    /\ Len(docs[1].entries[1].v) = 1
    /\ docs[1].entries[1].v[1] = <<>>
    /\ used.fields = 0
    /\ used.written = 0

(***************************************************************************)
(* C26.  What a call changes in the buffer.                                *)
(***************************************************************************)
\* the 1-based indexes at which a step has changed a byte that was there
Changed == {i \in 1..Len(output) : i > Len(output') \/ output'[i] # output[i]}

\* the 1-based indexes of the count of the list made i-th
Placeholder(i) == (lists[i].start_offset + 1)..(lists[i].start_offset + 4)

\* every list has its own 4 bytes for the count, inside the buffer, after
\* its Compound element kind
OwnPlaceholders ==
    /\ \A i \in DOMAIN lists :
            /\ lists[i].start_offset >= 1
            /\ lists[i].start_offset + 4 <= Len(output)
            /\ output[lists[i].start_offset] = T_Compound
    /\ \A i, j \in DOMAIN lists : i # j => Placeholder(i) \cap Placeholder(j) = {}
    /\ \A k \in DOMAIN stack :
            stack[k].type = "list" =>
                /\ stack[k].lid \in DOMAIN lists
                /\ stack[k].start_offset = lists[stack[k].lid].start_offset

\* a step of CompoundListWriter::finish keeps the length of the buffer and
\* changes bytes of the count of its own list only; any other step keeps
\* every byte that was there
FrameEffect ==
    IF CompoundListWriter_finish
    THEN /\ Len(output') = Len(output)
         /\ Changed \subseteq Placeholder(Top.lid)
         /\ SubSeq(output', Top.start_offset + 1, Top.start_offset + 4)
                = <<0, 0, 0, Top.length>>
    ELSE Changed = {}

\* C26: every call of the encoder other than CompoundListWriter::finish
\* appends to the buffer and leaves the bytes written before as they are;
\* CompoundListWriter::finish keeps the length and writes only the 4 bytes
\* of the count of its own list, which no other list shares, also for a list
\* inside an element of another list.
C26_FrameEffect == []OwnPlaceholders /\ [][FrameEffect]_vars

\* a list with one element has been finished inside the first element of a
\* list that is still open: the inner count is 1, the outer one still 0
C26_Witness ==
    /\ Len(lists) = 2
    /\ ~lists[1].done
    /\ lists[1].length = 1
    /\ lists[2].done
    /\ lists[2].length = 1
    /\ SubSeq(output, lists[2].start_offset + 1, lists[2].start_offset + 4) = <<0, 0, 0, 1>>
    /\ SubSeq(output, lists[1].start_offset + 1, lists[1].start_offset + 4) = <<0, 0, 0, 0>>
    /\ panic = NoPanic

(***************************************************************************)
(* C27.  The buffer finish() returns.                                      *)
(***************************************************************************)
\* C27: the buffer NbtWriter::finish returns after every builder was
\* finished is one document: it starts with the kind Compound, Document::parse
\* accepts it, and the End of its root is the last byte of the buffer, also
\* after more than one call of root().
C27_OneDocument ==
    returned /\ AllClosed =>
        LET r == Document_parse(output)
        IN  /\ output[1] = T_Compound
            /\ ~IsErr(r)
            /\ r.rd.position = Len(output)

RECURSIVE NoLongs(_)

\* no entry among es, nor inside them, was written by long_array with elements
NoLongs(es) ==
    \A i \in DOMAIN es :
        CASE es[i].m = "long_array" -> es[i].v = <<>>
          [] es[i].m = "compound" -> NoLongs(es[i].v)
          [] es[i].m = "compound_list" -> \A k \in DOMAIN es[i].v : NoLongs(es[i].v[k])
          [] OTHER -> TRUE

\* the same of the runs with one call of root() and no long_array
C27_OneRoot ==
    returned /\ AllClosed /\ used.roots = 1 /\ NoLongs(docs[1].entries) =>
        LET r == Document_parse(output)
        IN  /\ output[1] = T_Compound
            /\ ~IsErr(r)
            /\ r.rd.position = Len(output)

\* finish() has returned two documents one after the other
C27_TwoDocuments ==
    /\ returned
    /\ AllClosed
    /\ used.roots = 2
    /\ Len(docs) = 2
    /\ Document_parse(output).rd.position < Len(output)

(***************************************************************************)
(* C28.  Bytes after the document.                                         *)
(***************************************************************************)
\* byte strings put after a buffer: an End, a byte that is no kind, an empty
\* document, the start of a document
Tails == {<<T_End>>, <<255>>, <<T_Compound, 0, 0, T_End>>, <<T_Compound, 0, 9>>}

\* the bytes of the buffer up to the reader
Consumed == SubSeq(data, 1, res.r.rd.position)

\* C28: Document::parse ends at the End byte of the root: a buffer that
\* parses gives the same name and the same tree, with the reader at the same
\* offset, when any bytes are put after it, and so do the bytes up to that
\* End alone.
C28_TrailingBytes ==
    res.fn = "parse" /\ ~IsErr(res.r) =>
        /\ data[res.r.rd.position] = T_End
        /\ Document_parse(Consumed) = res.r
        /\ \A tail \in Tails :
                /\ Document_parse(data \o tail) = res.r
                /\ Document_parse(Consumed \o tail) = res.r

\* a document of two entries or more has been parsed from a buffer with
\* bytes after it
C28_Witness ==
    /\ res.fn = "parse"
    /\ ~IsErr(res.r)
    /\ Len(res.r.val.root) >= 2
    /\ res.r.rd.position < Len(data)
    /\ Document_parse(data \o <<255>>) = res.r

(***************************************************************************)
(* C29.  Where UnexpectedEndTag comes from.                                *)
(***************************************************************************)
\* the reader stands right after the header of a list: the last kind byte
\* read is the element kind End at position - 5, and the 4 bytes after it,
\* none of them part of a text, are a count other than 0
AfterEndListHeader(rd) ==
    /\ rd.position >= 6
    /\ rd.types # <<>>
    /\ rd.types[Len(rd.types)] = rd.position - 5
    /\ data[rd.position - 4] = T_End
    /\ \E i \in (rd.position - 3)..rd.position : data[i] # 0
    /\ ((rd.position - 3)..rd.position) \cap rd.texts = {}
    /\ Len(rd.types) >= 3

Returned ==
    /\ res.r.err.e \in ParseErrors \cup {NoErr.e}
    /\ res.r.rd.position <= Len(data)

\* every iteration of the entry loop and of an element loop starts with an
\* advance() that takes a byte or fails, and the only advance() that takes
\* nothing and succeeds follows the read of a length of 0: the kind bytes
\* read and the advance() calls are bounded by the length of the buffer
StepsBounded ==
    res.fn = "parse" =>
        /\ Returned
        /\ Len(res.r.rd.types) <= Len(data)
        /\ res.r.rd.advances <= 2 * Len(data) + 1

\* NbtList::read hands no count to Vec::reserve that is larger than the
\* number of bytes of the buffer
ReserveBounded ==
    res.fn = "parse" => res.r.rd.reserved <= Len(data)

\* C30: Document::parse ends on every buffer with a value or an error, after
\* a number of steps and with a demand for memory that are bounded by the
\* length of the buffer, whatever the counts in its list headers.
C30_Terminates ==
    StepsBounded /\ ReserveBounded

\* the steps alone are bounded
C30_StepsBounded ==
    [](StepsBounded /\ (res.fn = "parse" /\ res.r.rd.reserved = Huge
                            => res.r.err.e = "EOF"))

\* a parse of a buffer of 40 bytes at most has handed a count of 2^30 or more
\* to Vec::reserve before it has read the first element of the list
C30_HugeReserve ==
    /\ res.fn = "parse"
    /\ res.r.rd.reserved = Huge
    /\ Len(data) <= 40

====
